---- MODULE Spec2Model ----
(***************************************************************************)
(* Model of the vehicle gateway's OTA orchestrator (OTAManager), its       *)
(* dual-partition manager (PartitionManager) and the UDS block transfer    *)
(* it drives through the DoIP client.                                      *)
(*                                                                         *)
(* File contents are sequences of runs [tag, lo, len]: len bytes taken     *)
(* from position lo of the byte source tag.  Sizes and offsets are the     *)
(* program's real byte counts.                                             *)
(***************************************************************************)
EXTENDS Integers, Sequences, FiniteSets, TLC

(***************************************************************************)
(* Program constants                                                       *)
(***************************************************************************)
OTA_DOWNLOAD_CHUNK_SIZE == 65536
OTA_MAX_RETRY_ATTEMPTS == 3
OTA_PROGRESS_REPORT_INTERVAL == 5
MetadataSize == 1008
BootStatusSize == 251
CopyBufferSize == 8192
UdsChunkSize == 1024
ZoneHeaderSize == 1284
VehicleMetadataSize == 11932
RollbackThreshold == 3
SimPartitionSize == 104857600
HashHexLen == 64
DigestLen == 32
DOIP_PROTOCOL_VERSION == 2
DOIP_INVERSE_VERSION == 253
ROUTING_ACTIVATION_REQUEST == 5
ROUTING_ACTIVATION_RESPONSE == 6
DIAGNOSTIC_MESSAGE == 32769
ROUTINE_CONTROL == 49
RoutingPayloadMin == 9
RoutingSuccess == 16
DiagPayloadMin == 5
VCI_REPORT == 36864
READINESS_REPORT == 36865
RoutinePositive == 113
VCIInfoSize == 48
ReadinessInfoSize == 27

(***************************************************************************)
(* Bounds of the model                                                     *)
(***************************************************************************)
MaxChunks == 2
MaxCalls == 1
MaxFaults == 2
MaxBootCount == 3
MaxZones == 2
MaxDefects == 1
MaxZoneBlocks == 2
WrapBlocks == 260
MaxWire == 3
MaxLongChunks == 21
MaxBigChunks == 660

Min(a, b) == IF a < b THEN a ELSE b

(***************************************************************************)
(* Byte contents                                                           *)
(***************************************************************************)
Run(tag, lo, len) == [tag |-> tag, lo |-> lo, len |-> len]

RECURSIVE Size(_)
Size(c) == IF c = << >> THEN 0 ELSE Head(c).len + Size(Tail(c))

\* Two adjacent runs that continue one another are one run; zero bytes are
\* alike wherever they come from.
Joins(r, s) ==
    /\ r.tag = s.tag
    /\ \/ r.tag = "zero"
       \/ r.lo + r.len = s.lo

Cat(c, d) ==
    IF c = << >> THEN d
    ELSE IF d = << >> THEN c
    ELSE LET r == c[Len(c)]
             s == Head(d)
         IN  IF Joins(r, s)
             THEN SubSeq(c, 1, Len(c) - 1)
                    \o << Run(r.tag, r.lo, r.len + s.len) >>
                    \o Tail(d)
             ELSE c \o d

\* The bytes [from, from + n) of c, clipped at the end of c.
RECURSIVE Sub(_, _, _)
Sub(c, from, n) ==
    IF c = << >> \/ n <= 0 THEN << >>
    ELSE LET r == Head(c)
         IN  IF from >= r.len THEN Sub(Tail(c), from - r.len, n)
             ELSE LET take == Min(r.len - from, n)
                      lo   == IF r.tag = "zero" THEN 0 ELSE r.lo + from
                  IN  Cat(<< Run(r.tag, lo, take) >>,
                          Sub(Tail(c), 0, n - take))

\* c with d written at byte offset at: a write inside a file replaces
\* bytes, a write past its end extends it.
Overwrite(c, at, d) ==
    Cat(Cat(Sub(c, 0, at), d), Sub(c, at + Size(d), Size(c)))

Zeros(n) == IF n <= 0 THEN << >> ELSE << Run("zero", 0, n) >>

(***************************************************************************)
(* SHA-256 and the hexadecimal hash string                                 *)
(***************************************************************************)
TagCode(tag) == CASE tag = "pkg" -> 1 [] tag = "zero" -> 2 [] OTHER -> 3

BE4(n) == << (n \div 16777216) % 256, (n \div 65536) % 256,
             (n \div 256) % 256, n % 256 >>

RunBytes(c, k) ==
    IF k <= Len(c)
    THEN << TagCode(c[k].tag) >> \o BE4(c[k].lo) \o BE4(c[k].len)
    ELSE << 0 >> \o BE4(0) \o BE4(0)

RECURSIVE RestSum(_, _)
RestSum(c, k) ==
    IF k > Len(c) THEN 0
    ELSE (TagCode(c[k].tag) + c[k].lo + c[k].len + 7 * RestSum(c, k + 1))
            % 16777216

\* The 32-byte digest of a content: a fingerprint that tells apart any two
\* contents of up to three runs (no collisions, as is assumed of SHA-256).
SHA256(c) ==
    << Len(c) % 256 >> \o RunBytes(c, 1) \o RunBytes(c, 2) \o RunBytes(c, 3)
        \o BE4(RestSum(c, 4))

HexDigits == << "0", "1", "2", "3", "4", "5", "6", "7",
                "8", "9", "a", "b", "c", "d", "e", "f" >>

IsHexDigit(ch) == \E i \in 1..16 : HexDigits[i] = ch
HexVal(ch) == (CHOOSE i \in 1..16 : HexDigits[i] = ch) - 1

\* The hash string the backend sends for a digest.
ToHex(bytes) ==
    [i \in 1..(2 * Len(bytes)) |->
        LET b == bytes[(i + 1) \div 2]
        IN  IF i % 2 = 1 THEN HexDigits[(b \div 16) + 1]
                         ELSE HexDigits[(b % 16) + 1]]

\* std::stoi(byte_str, nullptr, 16) on a two-character string: leading
\* white space is skipped, a sign is accepted, then the longest run of
\* hexadecimal digits is converted; no digit at all throws
\* std::invalid_argument.  The value is then cast to uint8_t.
Stoi16(s) ==
    LET c1 == s[1]
        c2 == s[2]
    IN  IF IsHexDigit(c1)
        THEN [thrown |-> FALSE,
              val |-> IF IsHexDigit(c2) THEN 16 * HexVal(c1) + HexVal(c2)
                      ELSE HexVal(c1)]
        ELSE IF c1 = " " /\ IsHexDigit(c2)
        THEN [thrown |-> FALSE, val |-> HexVal(c2)]
        ELSE IF c1 = "-" /\ IsHexDigit(c2)
        THEN [thrown |-> FALSE, val |-> (256 - HexVal(c2)) % 256]
        ELSE [thrown |-> TRUE, val |-> 0]

\* OTAManager::hexToBinary: ok = its return value, thrown = an exception
\* left it, bytes = what it stored.
hexToBinary(hex_string) ==
    IF Len(hex_string) # HashHexLen
    THEN [ok |-> FALSE, thrown |-> FALSE, bytes |-> [i \in 1..DigestLen |-> 0]]
    ELSE LET conv == [i \in 1..DigestLen |->
                        Stoi16(SubSeq(hex_string, 2 * i - 1, 2 * i))]
         IN  IF \E i \in 1..DigestLen : conv[i].thrown
             THEN [ok |-> FALSE, thrown |-> TRUE,
                   bytes |-> [i \in 1..DigestLen |-> 0]]
             ELSE [ok |-> TRUE, thrown |-> FALSE,
                   bytes |-> [i \in 1..DigestLen |-> conv[i].val]]


(***************************************************************************)
(* State                                                                   *)
(***************************************************************************)
VARIABLES
    pc,                 \* where the running OTA call stands; "idle": none runs
    mode,               \* "self" (startOTA) or "vehicle" (startVehicleOTA)
    ret,                \* how the latest start call ended
    calls,              \* start calls made since the process started
    current_state_,     \* OTAManager::current_state_
    progress_,          \* OTAManager::progress_
    package_info_,      \* OTAManager::package_info_
    reports,            \* progress reports published in this transaction
    n_http,             \* HTTP requests issued in this transaction
    dl,                 \* locals of downloadPackage / downloadChunk
    dl_file,            \* <download_path>/<campaign_id>.bin
    boot_status_,       \* PartitionManager::boot_status_
    active_partition_,  \* PartitionManager::active_partition_
    bs_file,            \* the boot-status file
    dev,                \* the two partition devices
    simulation_mode_,   \* PartitionManager::simulation_mode_
    vpkg,               \* what the Vehicle Package on the server decodes to
    zone_packages_,     \* OTAManager::zone_packages_
    zone_files,         \* the extracted <download_path>/zones/zone_<n>.bin
    zi,                 \* the loop index i of startVehicleOTA, counted from 1
    doip_clients_,      \* OTAManager::doip_clients_, each client's state_
    xfer,               \* locals of transferZonePackageViaUDS
    uds_log,            \* the diagnostic requests put on the wire
    faults,             \* failures the environment has injected so far
    state_,             \* DoIPClient::state_ of a client used on its own
    socket_fd_,         \* DoIPClient::socket_fd_: -1, or the socket's number
    doip_pc,            \* "idle", or "routing" inside connect()
    doip_ret,           \* what the latest DoIPClient call handed back
    wire,               \* the messages written to the client's sockets
    activated,          \* a 0x10 activation response came on the open socket
    cancel_ret,         \* what the latest cancelOTA call returned
    vci_list,           \* the list a report request was given to fill
    inbox               \* what the socket holds that was not yet read

pmvars  == << boot_status_, active_partition_, bs_file, dev, simulation_mode_ >>

\* The environment fails at most MaxFaults times in a run: every failed
\* file operation and every HTTP body other than the requested range
\* counts as one.  HTTP requests that fail are bounded by the retry loop.
Cost(ok) == IF ok THEN 0 ELSE 1
Inject(n) == faults + n <= MaxFaults /\ faults' = faults + n
otavars == << pc, mode, ret, calls, current_state_, progress_, package_info_,
              reports, n_http, dl, dl_file >>
vehvars == << vpkg, zone_packages_, zone_files, zi, doip_clients_, xfer,
              uds_log >>
doipvars == << state_, socket_fd_, doip_pc, doip_ret, wire, activated >>
rxvars == << vci_list, inbox >>
sidevars == << doipvars, cancel_ret, rxvars >>

Partitions == { "A", "B" }
PartitionStates == { "UNKNOWN", "EMPTY", "READY", "ACTIVE", "UPDATING",
                     "ERROR", "ROLLBACK" }
Other(p) == IF p = "A" THEN "B" ELSE "A"

(***************************************************************************)
(* Partition manager                                                       *)
(***************************************************************************)
DefaultBootStatus ==
    [boot_target |-> "A", state_a |-> "ACTIVE", state_b |-> "EMPTY",
     boot_count |-> 0]

\* The record the PartitionManager constructor leaves: all bytes zero.
ZeroBootStatus ==
    [boot_target |-> "A", state_a |-> "UNKNOWN", state_b |-> "UNKNOWN",
     boot_count |-> 0]

getPartitionState(bs, p) == IF p = "A" THEN bs.state_a ELSE bs.state_b

getStandbyPartition(active) == IF active = "A" THEN "B" ELSE "A"

\* The in-memory part of setPartitionState.
WithState(bs, p, st) ==
    IF p = "A" THEN [bs EXCEPT !.state_a = st] ELSE [bs EXCEPT !.state_b = st]

\* How one write of the boot-status file can end: the whole record reaches
\* the file, the file cannot be opened, or the truncated file is left with
\* only its first len bytes.
TornLens == { 0, 5 }
WriteOutcomes ==
    { [k |-> "ok", len |-> BootStatusSize], [k |-> "open_fail", len |-> 0] }
        \cup { [k |-> "torn", len |-> n] : n \in TornLens }

writeBootStatusOk(o) == o.k = "ok"
writeBootStatusFile(bs, file, o) ==
    IF o.k = "open_fail" THEN file
    ELSE [present |-> TRUE, len |-> o.len, rec |-> bs]

\* readBootStatus: the bytes of the file are read over the zeroed record;
\* the packed record holds the magic number in bytes 0..3, boot_target in
\* byte 4, state_a in 5, state_b in 6 and boot_count from byte 7.
readBootStatusRec(file) ==
    IF ~file.present THEN ZeroBootStatus
    ELSE [boot_target |-> IF file.len >= 5 THEN file.rec.boot_target ELSE "A",
          state_a |-> IF file.len >= 6 THEN file.rec.state_a ELSE "UNKNOWN",
          state_b |-> IF file.len >= 7 THEN file.rec.state_b ELSE "UNKNOWN",
          boot_count |-> IF file.len >= 8 THEN file.rec.boot_count ELSE 0]
readBootStatusOk(file) == file.present /\ file.len >= 4

\* A threshold test that asks for one more failed boot.
isRollbackNeededLate(bs) == bs.boot_count > RollbackThreshold

isRollbackNeeded(bs) == bs.boot_count >= RollbackThreshold

NoMetadata ==
    [magic_ok |-> FALSE, firmware_version |-> 0, total_size |-> 0,
     sha256_hash |-> [i \in 1..DigestLen |-> 0], state |-> "UNKNOWN"]

\* A partition file as createSimulationEnvironment makes it (the configured
\* partition paths being the simulation files).
SimDevice == [meta |-> NoMetadata, body |-> Zeros(SimPartitionSize - MetadataSize)]

\* verifyPartition: the metadata block must carry the magic number, and the
\* SHA-256 of every byte that follows it, up to the end of the device, must
\* equal the stored hash.
verifyPartition(d) ==
    /\ d.meta.magic_ok
    /\ SHA256(d.body) = d.meta.sha256_hash


\* setPartitionState(p, st) from outside an install.
SetPartitionState(p, st) ==
    \E o \in WriteOutcomes :
        /\ Inject(Cost(writeBootStatusOk(o)))
        /\ boot_status_' = WithState(boot_status_, p, st)
        /\ bs_file' = writeBootStatusFile(boot_status_', bs_file, o)
        /\ UNCHANGED << active_partition_, dev, simulation_mode_ >>

\* A switch that leaves the boot count as it stands.
switchBootTargetRecKeepCount(bs, target) == [bs EXCEPT !.boot_target = target]

switchBootTargetRec(bs, target) ==
    [bs EXCEPT !.boot_target = target, !.boot_count = 0]

SwitchBootTarget(target) ==
    \E o \in WriteOutcomes :
        /\ Inject(Cost(writeBootStatusOk(o)))
        /\ boot_status_' = switchBootTargetRec(boot_status_, target)
        /\ bs_file' = writeBootStatusFile(boot_status_', bs_file, o)
        /\ UNCHANGED << active_partition_, dev, simulation_mode_ >>

IncrementBootCount ==
    \E o \in WriteOutcomes :
        /\ boot_status_.boot_count < MaxBootCount
        /\ Inject(Cost(writeBootStatusOk(o)))
        /\ boot_status_' = [boot_status_ EXCEPT !.boot_count = @ + 1]
        /\ bs_file' = writeBootStatusFile(boot_status_', bs_file, o)
        /\ UNCHANGED << active_partition_, dev, simulation_mode_ >>

performRollbackRec(bs) ==
    LET current  == bs.boot_target
        previous == Other(current)
    IN  [WithState(bs, current, "ROLLBACK")
            EXCEPT !.boot_target = previous, !.boot_count = 0]

PerformRollback ==
    \E o1, o2 \in WriteOutcomes :
        LET marked == WithState(boot_status_, boot_status_.boot_target, "ROLLBACK")
        IN  /\ Inject(Cost(writeBootStatusOk(o1)) + Cost(writeBootStatusOk(o2)))
            /\ boot_status_' = performRollbackRec(boot_status_)
            /\ bs_file' = writeBootStatusFile(boot_status_',
                              writeBootStatusFile(marked, bs_file, o1), o2)
            /\ UNCHANGED << active_partition_, dev, simulation_mode_ >>

\* A getter that answers with the boot target.
getBootTarget == boot_status_.boot_target

getActivePartition == active_partition_

\* PartitionManager::initialize() on a freshly constructed manager.
Initialize ==
    /\ faults' = faults
    /\ dev' = IF simulation_mode_ THEN [p \in Partitions |-> SimDevice] ELSE dev
    /\ IF readBootStatusOk(bs_file)
       THEN /\ boot_status_' = readBootStatusRec(bs_file)
            /\ bs_file' = bs_file
       ELSE \* a failed write of the default record ends initialize() in
            \* failure and the system does not start
            \E o \in WriteOutcomes :
                /\ writeBootStatusOk(o)
                /\ boot_status_' = DefaultBootStatus
                /\ bs_file' = writeBootStatusFile(DefaultBootStatus, bs_file, o)
    /\ active_partition_' = boot_status_'.boot_target
    /\ UNCHANGED simulation_mode_

(***************************************************************************)
(* OTA orchestrator: state, progress, reports                              *)
(***************************************************************************)
ZeroProgress ==
    [state |-> "IDLE", total_bytes |-> 0, downloaded_bytes |-> 0,
     percentage |-> 0, current_step |-> "", error_message |-> ""]

NoPackage ==
    [package_size |-> 0, firmware_version |-> 0, sha256_hash |-> << >>]

isOTAInProgress(st) == st \notin { "IDLE", "COMPLETED", "ERROR" }

\* updateState and reportError change current_state_ and progress_ and
\* publish progress_; these give the new progress_ (the new current_state_
\* is its state field).
updateState(pr, st, step) ==
    [pr EXCEPT !.state = st, !.current_step = step]

reportError(pr, msg) ==
    [pr EXCEPT !.state = "ERROR", !.error_message = msg]

\* x * 100 as a number of two digits in base 65536, the high digit without
\* a limit: the product in a type wide enough for it.
Product100(x) ==
    LET l == (x % 65536) * 100
    IN  [hi |-> (x \div 65536) * 100 + l \div 65536, lo |-> l % 65536]

\* The low 32 bits of such a number: the product in uint32_t.
U32(p) == [hi |-> p.hi % 65536, lo |-> p.lo]

Bit(p, i) ==
    IF i >= 16 THEN (p.hi \div 2 ^ (i - 16)) % 2 ELSE (p.lo \div 2 ^ i) % 2

\* Integer division of such a number by d, 0 < d <= 2^30, bit by bit from
\* bit i down: q is the quotient and r the remainder of the bits above i.
RECURSIVE DivStep(_, _, _, _, _)
DivStep(p, d, i, q, r) ==
    IF i < 0 THEN q
    ELSE LET r2 == 2 * r + Bit(p, i)
         IN  IF r2 >= d
             THEN DivStep(p, d, i - 1, 2 * q + 1, r2 - d)
             ELSE DivStep(p, d, i - 1, 2 * q, r2)

\* A number below 2^31 is divided at once.
Quotient(p, d) ==
    IF p.hi < 32768 THEN (p.hi * 65536 + p.lo) \div d
    ELSE DivStep(p, d, 39, 0, 0)

\* (downloaded * 100) / total in size_t, stored in a uint8_t.
Percentage64(downloaded, total) ==
    Quotient(Product100(downloaded), total) % 256

\* (downloaded * 100) / total in uint32_t, stored in a uint8_t.
Percentage32(downloaded, total) ==
    Quotient(U32(Product100(downloaded)), total) % 256

updateProgress(pr, downloaded, total) ==
    [pr EXCEPT !.downloaded_bytes = downloaded, !.total_bytes = total,
               !.percentage = Percentage32(downloaded, total)]

\* A start call that ends in failure: reportError, then return false.
FailFrom(sent, pr, msg) ==
    /\ progress_' = reportError(pr, msg)
    /\ current_state_' = "ERROR"
    /\ reports' = Append(sent, progress_')
    /\ pc' = "idle"
    /\ ret' = "false"

Fail(pr, msg) == FailFrom(reports, pr, msg)

(***************************************************************************)
(* The backend's side: the file it serves and the hash it announces        *)
(***************************************************************************)
ServerFile(n) == IF n = 0 THEN << >> ELSE << Run("pkg", 0, n) >>

PackageSizes ==
    { 0 } \cup { k * OTA_DOWNLOAD_CHUNK_SIZE + 1 : k \in 0..(MaxChunks - 1) }

GoodHash(n) == ToHex(SHA256(ServerFile(n)))

HashStrings(n) ==
    { GoodHash(n),                                \* the hash of the file
      SubSeq(GoodHash(n), 1, HashHexLen - 1),     \* one character short
      [GoodHash(n) EXCEPT ![1] = "g"] }           \* not hexadecimal

\* The package infos a start call is given.
PackageInfos ==
    UNION { { [package_size |-> n, firmware_version |-> 1, sha256_hash |-> h] :
                h \in HashStrings(n) } : n \in PackageSizes }

\* What one HTTP GET with a Range header can bring back: a transport
\* failure or a status other than 200/206, the requested range, the whole
\* file (a 200 from a server that ignores Range), or a body of the right
\* length with other bytes.
HttpOutcomes == { "fail", "range", "whole", "junk" }

HttpBody(outcome, total, start, end) ==
    CASE outcome = "range" -> Sub(ServerFile(total), start, end - start + 1)
      [] outcome = "whole" -> ServerFile(total)
      [] outcome = "junk"  -> << Run("junk", start, end - start + 1) >>
      [] OTHER -> << >>

(***************************************************************************)
(* startOTA / startVehicleOTA: entry and download                          *)
(***************************************************************************)
DownloadStep(m) ==
    IF m = "self" THEN "Downloading OTA package"
    ELSE "Downloading Vehicle Package from Server"

DownloadError(m) ==
    IF m = "self" THEN "Download failed"
    ELSE "Failed to download Vehicle Package"

VerifyStep(m) ==
    IF m = "self" THEN "Verifying package integrity"
    ELSE "Parsing Vehicle Package metadata"

NoDownload == [downloaded |-> 0, attempt |-> 0, last_reported_percentage |-> 0]

\* A start call that resets the progress record before it looks at the
\* state.
StartRejectedAfterReset ==
    /\ pc = "idle"
    /\ isOTAInProgress(current_state_)
    /\ calls <= MaxCalls
    /\ calls' = calls + 1
    /\ ret' = "false"
    /\ progress_' = ZeroProgress
    /\ faults' = faults
    /\ UNCHANGED << pc, mode, current_state_, package_info_, reports, n_http,
                    dl, dl_file >>
    /\ UNCHANGED vehvars
    /\ UNCHANGED pmvars
    /\ UNCHANGED sidevars

\* The head of startOTA and of startVehicleOTA, entered while an OTA is in
\* progress: the call returns false.  One such call can follow the calls
\* that MaxCalls admits.
StartRejected ==
    /\ pc = "idle"
    /\ isOTAInProgress(current_state_)
    /\ calls <= MaxCalls
    /\ calls' = calls + 1
    /\ ret' = "false"
    /\ Inject(0)
    /\ UNCHANGED << pc, mode, current_state_, progress_, package_info_,
                    reports, n_http, dl, dl_file >>
    /\ UNCHANGED vehvars
    /\ UNCHANGED pmvars
    /\ UNCHANGED sidevars

\* The head of startOTA and of startVehicleOTA otherwise: the stored
\* package info, the reset progress, the DOWNLOADING report, and
\* downloadPackage creating its output file.
Start(m, info, defects) ==
    /\ pc = "idle"
    /\ ~isOTAInProgress(current_state_)
    /\ calls < MaxCalls
    /\ calls' = calls + 1
    /\ \E created \in BOOLEAN :
        LET pr0 == [ZeroProgress EXCEPT !.total_bytes = info.package_size]
            pr1 == updateState(pr0, "DOWNLOADING", DownloadStep(m))
        IN  /\ Inject(Cost(created) + defects)
            /\ mode' = m
            /\ package_info_' = info
            /\ n_http' = 0
            /\ dl' = NoDownload
            /\ IF created
               THEN /\ dl_file' = << >>
                    /\ progress_' = pr1
                    /\ current_state_' = "DOWNLOADING"
                    /\ reports' = << pr1 >>
                    /\ pc' = "download"
                    /\ ret' = "none"
               ELSE /\ dl_file' = dl_file
                    /\ progress_' = reportError(pr1, DownloadError(m))
                    /\ current_state_' = "ERROR"
                    /\ reports' = << pr1, progress_' >>
                    /\ pc' = "idle"
                    /\ ret' = "false"

StartOTA ==
    /\ pc = "idle" /\ calls < MaxCalls
    /\ \E info \in PackageInfos : Start("self", info, 0)
    /\ UNCHANGED vehvars
    /\ UNCHANGED pmvars
    /\ UNCHANGED sidevars

\* A retry loop that allows one attempt more.
RetryLeftOneMore(attempt) == attempt < OTA_MAX_RETRY_ATTEMPTS

\* for (attempt = 0; attempt < max_retries_; attempt++): whether another
\* pass follows the failed pass number attempt (counted from 0).
RetryLeft(attempt) == attempt + 1 < OTA_MAX_RETRY_ATTEMPTS

\* One pass of the retry loop of downloadChunk: one HTTP GET for the chunk
\* [chunk_start, chunk_end], and on success the rest of the loop body of
\* downloadPackage.
DownloadAttemptOf(outcomes) ==
    /\ pc = "download"
    /\ dl.downloaded < package_info_.package_size
    /\ \E outcome \in outcomes :
        LET total_size  == package_info_.package_size
            chunk_start == dl.downloaded
            chunk_end   == Min(dl.downloaded + OTA_DOWNLOAD_CHUNK_SIZE - 1,
                               total_size - 1)
            downloaded  == chunk_end + 1
            pr1         == updateProgress(progress_, downloaded, total_size)
            current_percentage == Percentage64(downloaded, total_size)
            report      == current_percentage >=
                             dl.last_reported_percentage
                               + OTA_PROGRESS_REPORT_INTERVAL
        IN  /\ Inject(Cost(outcome \in { "range", "fail" }))
            /\ n_http' = n_http + 1
            /\ IF outcome # "fail"
               THEN /\ dl_file' = Cat(dl_file,
                            HttpBody(outcome, total_size, chunk_start, chunk_end))
                    /\ dl' = [downloaded |-> downloaded, attempt |-> 0,
                              last_reported_percentage |->
                                 IF report THEN current_percentage
                                 ELSE dl.last_reported_percentage]
                    /\ progress_' = pr1
                    /\ reports' = IF report THEN Append(reports, pr1) ELSE reports
                    /\ UNCHANGED << pc, ret, current_state_ >>
               ELSE IF RetryLeft(dl.attempt)
               THEN /\ dl' = [dl EXCEPT !.attempt = @ + 1]
                    /\ UNCHANGED << pc, ret, current_state_, progress_,
                                    reports, dl_file >>
               ELSE /\ dl' = [dl EXCEPT !.attempt = @ + 1]
                    /\ Fail(progress_, DownloadError(mode))
                    /\ UNCHANGED dl_file
    /\ UNCHANGED << mode, calls, package_info_ >>
    /\ UNCHANGED vehvars
    /\ UNCHANGED pmvars
    /\ UNCHANGED sidevars

DownloadAttempt == DownloadAttemptOf(HttpOutcomes)

\* The download loop has ended: the file is closed and the caller enters
\* VERIFYING.
DownloadDone ==
    /\ pc = "download"
    /\ dl.downloaded >= package_info_.package_size
    /\ progress_' = updateState(progress_, "VERIFYING", VerifyStep(mode))
    /\ current_state_' = "VERIFYING"
    /\ reports' = Append(reports, progress_')
    /\ pc' = IF mode = "self" THEN "verify" ELSE "vparse"
    /\ Inject(0)
    /\ UNCHANGED << mode, ret, calls, package_info_, n_http, dl, dl_file >>
    /\ UNCHANGED vehvars
    /\ UNCHANGED pmvars
    /\ UNCHANGED sidevars

(***************************************************************************)
(* startOTA: verification and installation                                 *)
(***************************************************************************)
\* verifyPackage and what startOTA does with its result.  An exception
\* thrown by std::stoi inside hexToBinary is caught nowhere in startOTA:
\* the call is left with the state as it stood.
VerifyPackage ==
    /\ pc = "verify"
    /\ \E readable \in BOOLEAN :
        LET calculated == SHA256(dl_file)
            expected   == hexToBinary(package_info_.sha256_hash)
        IN  /\ Inject(Cost(readable))
            /\ IF ~readable
               THEN Fail(progress_, "Verification failed")
               ELSE IF expected.thrown
               THEN /\ pc' = "idle"
                    /\ ret' = "thrown"
                    /\ UNCHANGED << current_state_, progress_, reports >>
               ELSE IF ~expected.ok \/ calculated # expected.bytes
               THEN Fail(progress_, "Verification failed")
               ELSE /\ progress_' = updateState(progress_, "INSTALLING",
                                                "Installing to standby partition")
                    /\ current_state_' = "INSTALLING"
                    /\ reports' = Append(reports, progress_')
                    /\ pc' = "install"
                    /\ UNCHANGED ret
    /\ UNCHANGED << mode, calls, package_info_, n_http, dl, dl_file >>
    /\ UNCHANGED vehvars
    /\ UNCHANGED pmvars
    /\ UNCHANGED sidevars

RoundUp(n, unit) == ((n + unit - 1) \div unit) * unit

\* The bytes the copy loop of installPackage moves: whole buffers of the
\* downloaded file until package_size bytes or more were copied, or the
\* file ends.
CopiedBytes(file, package_size) ==
    Sub(file, 0, Min(Size(file), RoundUp(package_size, CopyBufferSize)))

InstallMetadata(info) ==
    [magic_ok |-> TRUE, firmware_version |-> info.firmware_version,
     total_size |-> info.package_size,
     sha256_hash |-> hexToBinary(info.sha256_hash).bytes, state |-> "READY"]

\* installPackage and the end of startOTA.  o1, o2, o3 are the outcomes of
\* the boot-status writes of the UPDATING mark, of the ERROR or READY mark,
\* and of switchBootTarget (not reached on the failure paths).
InstallPackage ==
    /\ pc = "install"
    /\ \E o1, o2, o3 \in WriteOutcomes :
       \E part_open, src_open, copy_ok \in BOOLEAN :
        LET standby == getStandbyPartition(active_partition_)
            bsU == WithState(boot_status_, standby, "UPDATING")
            fU  == writeBootStatusFile(bsU, bs_file, o1)
            bsE == WithState(bsU, standby, "ERROR")
            fE  == writeBootStatusFile(bsE, fU, o2)
            d1  == [dev[standby] EXCEPT !.meta = InstallMetadata(package_info_)]
            copied == IF copy_ok
                      THEN CopiedBytes(dl_file, package_info_.package_size)
                      ELSE << >>
            d2  == [d1 EXCEPT !.body = Overwrite(d1.body, 0, copied)]
            bsR == WithState(bsU, standby, "READY")
            fR  == writeBootStatusFile(bsR, fU, o2)
            bsS == switchBootTargetRec(bsR, standby)
            fS  == writeBootStatusFile(bsS, fR, o3)
            w12 == Cost(writeBootStatusOk(o1)) + Cost(writeBootStatusOk(o2))
        IN  IF ~part_open
            THEN /\ src_open /\ copy_ok /\ writeBootStatusOk(o3)
                 /\ Inject(w12 + 1)
                 /\ boot_status_' = bsE /\ bs_file' = fE /\ dev' = dev
                 /\ Fail(progress_, "Installation failed")
            ELSE IF ~src_open
            THEN /\ copy_ok /\ writeBootStatusOk(o3)
                 /\ Inject(w12 + 1)
                 /\ boot_status_' = bsE /\ bs_file' = fE
                 /\ dev' = [dev EXCEPT ![standby] = d1]
                 /\ Fail(progress_, "Installation failed")
            ELSE IF ~verifyPartition(d2)
            THEN /\ writeBootStatusOk(o3)
                 /\ Inject(w12 + Cost(copy_ok))
                 /\ boot_status_' = bsE /\ bs_file' = fE
                 /\ dev' = [dev EXCEPT ![standby] = d2]
                 /\ Fail(progress_, "Installation failed")
            ELSE IF ~writeBootStatusOk(o3)
            THEN /\ Inject(w12 + Cost(copy_ok) + 1)
                 /\ boot_status_' = bsS /\ bs_file' = fS
                 /\ dev' = [dev EXCEPT ![standby] = d2]
                 /\ Fail(progress_, "Installation failed")
            ELSE /\ Inject(w12 + Cost(copy_ok))
                 /\ boot_status_' = bsS /\ bs_file' = fS
                 /\ dev' = [dev EXCEPT ![standby] = d2]
                 /\ progress_' = updateState(progress_, "READY",
                                             "OTA completed, ready to reboot")
                 /\ reports' = Append(reports, progress_')
                 /\ current_state_' = "COMPLETED"
                 /\ pc' = "idle"
                 /\ ret' = "true"
    /\ UNCHANGED << mode, calls, package_info_, n_http, dl, dl_file >>
    /\ UNCHANGED << active_partition_, simulation_mode_ >>
    /\ UNCHANGED vehvars
    /\ UNCHANGED sidevars

(***************************************************************************)
(* startVehicleOTA: the Vehicle Package                                    *)
(***************************************************************************)
ZoneNumbers == { 1, 2, 5 }

\* VehiclePackageParser::determineZoneTarget: the ZGW a zone is routed to.
determineZoneTarget(zone_number) ==
    IF zone_number <= 4 THEN << "192.168.1.10", 13400 >>
    ELSE IF zone_number <= 8 THEN << "192.168.1.11", 13400 >>
    ELSE << "192.168.1.12", 13400 >>

ZoneSizes ==
    { ZoneHeaderSize + (k - 1) * UdsChunkSize : k \in 1..MaxZoneBlocks }

\* One entry of the zone reference table together with what the bytes it
\* points at are: id_nul says that the 16-byte zone_id field holds a NUL,
\* ok that the zone file carries the zone magic and the CRC32 of its data.
ZoneRefs ==
    [zone_number : ZoneNumbers, size : ZoneSizes, id_nul : BOOLEAN,
     ok : BOOLEAN, ecu_nul : BOOLEAN]

TargetFields == { "match", "mismatch", "no_nul" }

ZoneTables == UNION { [1..n -> ZoneRefs] : n \in 0..MaxZones }

RECURSIVE SumSizes(_, _)
SumSizes(zones, k) ==
    IF k = 0 THEN 0 ELSE zones[k].size + SumSizes(zones, k - 1)

\* How the offset and size fields of the zone references lie in the file:
\* one zone after the other ("ok"), the last reference starting at the
\* offset of the one before it ("overlap"), or the file ending one byte
\* before the end of the last zone, where extractZonePackage pads what it
\* could not read with zeros ("past_end").
ZoneLayouts == { "ok", "overlap", "past_end" }

LayoutPossible(layout, zones) ==
    CASE layout = "overlap"  -> Len(zones) >= 2
      [] layout = "past_end" -> Len(zones) >= 1
      [] OTHER               -> TRUE

\* The length of the Vehicle Package file.
VehiclePackageSize(v) ==
    LET n == Len(v.zones)
    IN  VehicleMetadataSize +
        CASE v.layout = "overlap" /\ n >= 2 ->
                 SumSizes(v.zones, n - 2)
                   + (IF v.zones[n - 1].size > v.zones[n].size
                      THEN v.zones[n - 1].size ELSE v.zones[n].size)
          [] v.layout = "past_end" /\ n >= 1 -> SumSizes(v.zones, n) - 1
          [] OTHER -> SumSizes(v.zones, n)

\* What is wrong with a Vehicle Package counts against the fault budget.
Defects(v) ==
    Cost(v.magic_ok) + Cost(v.crc_ok) + Cost(v.target = "match")
      + Cost(v.layout = "ok")
      + Cardinality({ k \in 1..Len(v.zones) :
                        \/ ~v.zones[k].id_nul
                        \/ ~v.zones[k].ok
                        \/ ~v.zones[k].ecu_nul })

\* The Vehicle Packages a campaign can carry: at most MaxDefects things are
\* wrong with one.
VehiclePackages ==
    { v \in [magic_ok : BOOLEAN, crc_ok : BOOLEAN, target : TargetFields,
              zones : ZoneTables, layout : ZoneLayouts] :
        Defects(v) <= MaxDefects /\ LayoutPossible(v.layout, v.zones) }

NoVehiclePackage ==
    [magic_ok |-> FALSE, crc_ok |-> FALSE, target |-> "mismatch",
     zones |-> << >>, layout |-> "ok"]

NoZoneFile == [present |-> FALSE, size |-> 0, ok |-> FALSE, ecu_nul |-> TRUE]

NoTransfer ==
    [file_size |-> 0, total_sent |-> 0, block_sequence |-> 0,
     result |-> "none"]

StartVehicleOTA ==
    /\ pc = "idle" /\ calls < MaxCalls
    /\ \E v \in VehiclePackages :
        /\ Start("vehicle",
                 [package_size |-> VehiclePackageSize(v), firmware_version |-> 1,
                  sha256_hash |-> GoodHash(VehiclePackageSize(v))],
                 Defects(v))
        /\ vpkg' = v
    /\ zone_packages_' = << >>
    /\ zi' = 0
    /\ xfer' = NoTransfer
    /\ uds_log' = << >>
    /\ UNCHANGED << zone_files, doip_clients_ >>
    /\ UNCHANGED pmvars
    /\ UNCHANGED sidevars

\* The index of the first zone reference with the zone number of entry k.
FirstWithNumber(zones, k) ==
    CHOOSE j \in 1..k :
        /\ zones[j].zone_number = zones[k].zone_number
        /\ \A i \in 1..(j - 1) : zones[i].zone_number # zones[k].zone_number

\* VehiclePackageParser::parse: the zone_packages_ list.
ParsedZones(zones) ==
    [k \in 1..Len(zones) |->
        [zone_number |-> zones[k].zone_number, size |-> zones[k].size,
         extracted |-> FALSE]]

\* VehiclePackageParser::extractAllZonePackages: every pass writes the bytes
\* of the first reference with the zone number to zone_<number>.bin and sets
\* the path of the first list entry with that number.
ExtractedZones(zones) ==
    [k \in 1..Len(zones) |->
        [zone_number |-> zones[k].zone_number, size |-> zones[k].size,
         extracted |-> FirstWithNumber(zones, k) = k]]

ExtractedFiles(files, zones) ==
    [z \in ZoneNumbers |->
        IF \E k \in 1..Len(zones) : zones[k].zone_number = z
        THEN LET k == CHOOSE k \in 1..Len(zones) :
                         /\ zones[k].zone_number = z
                         /\ FirstWithNumber(zones, k) = k
             IN  [present |-> TRUE, size |-> zones[k].size, ok |-> zones[k].ok,
                  ecu_nul |-> zones[k].ecu_nul]
        ELSE files[z]]

\* Steps 2 to 5 of startVehicleOTA: parse, verify, verifyVehiclePackageTarget
\* and extractZonePackages on the downloaded file.  std::string::erase at
\* the position find('\0') returned throws std::out_of_range when the field
\* holds no NUL; startVehicleOTA catches nothing.
VehicleParse ==
    /\ pc = "vparse"
    /\ \E extract_ok \in BOOLEAN :
        LET n        == package_info_.package_size
            head_ok  == /\ Size(dl_file) >= VehicleMetadataSize
                        /\ Sub(dl_file, 0, VehicleMetadataSize)
                             = Sub(ServerFile(n), 0, VehicleMetadataSize)
            body_ok  == Sub(dl_file, VehicleMetadataSize, n - VehicleMetadataSize)
                          = Sub(ServerFile(n), VehicleMetadataSize,
                                n - VehicleMetadataSize)
            zones    == vpkg.zones
            id_throw == \E k \in 1..Len(zones) : ~zones[k].id_nul
            pr1      == updateState(progress_, "INSTALLING",
                                    "Extracting Zone Packages")
            pr2      == updateState(pr1, "COMPLETED",
                                    "All Zone Packages sent to ZGWs")
            thrown   == /\ pc' = "idle"
                        /\ ret' = "thrown"
                        /\ UNCHANGED << current_state_, progress_, reports,
                                        zone_files, zi >>
        IN  IF ~head_ok \/ ~vpkg.magic_ok
            THEN /\ extract_ok /\ Inject(0)
                 /\ Fail(progress_, "Failed to parse Vehicle Package")
                 /\ UNCHANGED << zone_packages_, zone_files, zi >>
            ELSE IF id_throw
            THEN /\ extract_ok /\ Inject(0)
                 /\ thrown
                 /\ zone_packages_' = ParsedZones(zones)
            ELSE IF ~body_ok \/ ~vpkg.crc_ok
            THEN /\ extract_ok /\ Inject(0)
                 /\ Fail(progress_, "Vehicle Package integrity check failed")
                 /\ zone_packages_' = ParsedZones(zones)
                 /\ UNCHANGED << zone_files, zi >>
            ELSE IF vpkg.target = "no_nul"
            THEN /\ extract_ok /\ Inject(0)
                 /\ thrown
                 /\ zone_packages_' = ParsedZones(zones)
            ELSE IF vpkg.target # "match"
            THEN /\ extract_ok /\ Inject(0)
                 /\ Fail(progress_, "Vehicle Package target mismatch")
                 /\ zone_packages_' = ParsedZones(zones)
                 /\ UNCHANGED << zone_files, zi >>
            ELSE IF ~extract_ok /\ zones # << >>
            THEN /\ Inject(1)
                 /\ FailFrom(Append(reports, pr1), pr1,
                             "Failed to extract Zone Packages")
                 /\ zone_packages_' = ParsedZones(zones)
                 /\ UNCHANGED << zone_files, zi >>
            ELSE IF zones = << >>
            THEN /\ extract_ok /\ Inject(0)
                 /\ progress_' = pr2
                 /\ reports' = reports \o << pr1, pr2 >>
                 /\ current_state_' = "COMPLETED"
                 /\ pc' = "idle"
                 /\ ret' = "true"
                 /\ zone_packages_' = << >>
                 /\ UNCHANGED << zone_files, zi >>
            ELSE /\ Inject(0)
                 /\ progress_' = pr1
                 /\ reports' = Append(reports, pr1)
                 /\ current_state_' = "INSTALLING"
                 /\ zone_packages_' = ExtractedZones(zones)
                 /\ zone_files' = ExtractedFiles(zone_files, zones)
                 /\ zi' = 1
                 /\ pc' = "zone"
                 /\ UNCHANGED ret
    /\ UNCHANGED << mode, calls, package_info_, n_http, dl, dl_file >>
    /\ UNCHANGED << vpkg, doip_clients_, xfer, uds_log >>
    /\ UNCHANGED pmvars
    /\ UNCHANGED sidevars

(***************************************************************************)
(* sendZonePackageToZGW and transferZonePackageViaUDS                      *)
(***************************************************************************)
\* How DoIPClient::connect() on a new client can end, and the state_ it
\* leaves: no socket or no TCP connection, no routing activation, success.
ConnectOutcomes == { "tcp_fail", "routing_fail", "ok" }

ConnectState(o) ==
    CASE o = "tcp_fail"     -> "ERROR"
      [] o = "routing_fail" -> "IDLE"
      [] OTHER              -> "ACTIVE"

SendFailed == "Failed to send Zone Package to ZGW"

\* sendZonePackageToZGW up to the first diagnostic request: a new client
\* from getDoIPClientForZGW, connect(), ZonePackageParser::parse and
\* verify, and the file read of transferZonePackageViaUDS.  parse erases
\* every ecu_id of the ECU table from its first NUL on: an ecu_id that
\* fills its 16 bytes makes erase throw std::out_of_range, caught nowhere.
\* (ok says the magic and the CRC32 are good; a file with ecu_nul false has
\* a good magic.)
ZoneConnect ==
    /\ pc = "zone"
    /\ \E o \in ConnectOutcomes : \E readable \in BOOLEAN :
        LET zone == zone_packages_[zi]
            file == IF zone.extracted THEN zone_files[zone.zone_number]
                    ELSE NoZoneFile
            head_ok == file.present /\ file.size >= ZoneHeaderSize
            file_ok == head_ok /\ file.ok
        IN  /\ doip_clients_' = Append(doip_clients_, ConnectState(o))
            /\ IF o # "ok"
               THEN /\ readable /\ Inject(1)
                    /\ Fail(progress_, SendFailed)
                    /\ UNCHANGED xfer
               ELSE IF head_ok /\ ~file.ecu_nul
               THEN /\ readable /\ Inject(0)
                    /\ pc' = "idle"
                    /\ ret' = "thrown"
                    /\ UNCHANGED << current_state_, progress_, reports, xfer >>
               ELSE IF ~file_ok
               THEN /\ readable /\ Inject(0)
                    /\ Fail(progress_, SendFailed)
                    /\ UNCHANGED xfer
               ELSE IF ~readable
               THEN /\ Inject(1)
                    /\ Fail(progress_, SendFailed)
                    /\ UNCHANGED xfer
               ELSE /\ Inject(0)
                    /\ xfer' = [file_size |-> file.size, total_sent |-> 0,
                                block_sequence |-> 1, result |-> "none"]
                    /\ pc' = "x34"
                    /\ UNCHANGED << ret, current_state_, progress_, reports >>
    /\ UNCHANGED << mode, calls, package_info_, n_http, dl, dl_file >>
    /\ UNCHANGED << vpkg, zone_packages_, zone_files, zi, uds_log >>
    /\ UNCHANGED pmvars
    /\ UNCHANGED sidevars

\* What DoIPClient::sendDiagnosticMessage hands back: nothing (send
\* failure, timeout, a message that is no diagnostic message), a negative
\* response, or the positive response to 0x34, 0x36 or 0x37.
UdsResponses == { << >>, << 127 >>, << 116 >>, << 118 >>, << 119 >> }

\* A check that looks only at whether a response came.
PositiveAny(rsp, code) == rsp # << >>

Positive(rsp, code) == rsp # << >> /\ rsp[1] = code

\* One call of sendDiagnosticMessage(service_id, payload) on the client of
\* the zone, answered by rsp.  A client that is not ACTIVE sends nothing
\* and hands back nothing.
Diagnostic(service_id, payload, data_len, rsp) ==
    LET client == doip_clients_[Len(doip_clients_)]
    IN  IF client = "ACTIVE"
        THEN uds_log' = Append(uds_log,
                 [zone |-> zi, service_id |-> service_id, payload |-> payload,
                  data_len |-> data_len, rsp |-> rsp])
        ELSE rsp = << >> /\ uds_log' = uds_log

\* A block counter that wraps to 1 instead of 0.
NextBlockSequenceSkipZero(b) == (b % 255) + 1

\* block_sequence = (block_sequence + 1) % 256 on a uint8_t.
NextBlockSequence(b) == (b + 1) % 256

xfervars == << mode, ret, calls, current_state_, progress_, package_info_,
               reports, n_http, dl, dl_file, vpkg, zone_packages_, zone_files,
               zi, doip_clients_ >>

\* Step 1 of transferZonePackageViaUDS: Request Download.
RequestDownload ==
    /\ pc = "x34"
    /\ \E rsp \in UdsResponses :
        /\ Diagnostic(52, << 52 >> \o BE4(xfer.file_size), 0, rsp)
        /\ Inject(Cost(Positive(rsp, 116)))
        /\ IF Positive(rsp, 116)
           THEN pc' = "x36" /\ xfer' = xfer
           ELSE pc' = "xret" /\ xfer' = [xfer EXCEPT !.result = "false"]
    /\ UNCHANGED xfervars
    /\ UNCHANGED pmvars
    /\ UNCHANGED sidevars

\* One pass of the loop of step 2: Transfer Data for the next block.
TransferData ==
    /\ pc = "x36"
    /\ xfer.total_sent < xfer.file_size
    /\ \E rsp \in UdsResponses :
        LET remaining == xfer.file_size - xfer.total_sent
            current_chunk_size == Min(UdsChunkSize, remaining)
        IN  /\ Diagnostic(54, << 54, xfer.block_sequence >>,
                          current_chunk_size, rsp)
            /\ Inject(Cost(Positive(rsp, 118)))
            /\ IF Positive(rsp, 118)
               THEN /\ pc' = "x36"
                    /\ xfer' = [xfer EXCEPT
                          !.total_sent = @ + current_chunk_size,
                          !.block_sequence = NextBlockSequence(@)]
               ELSE pc' = "xret" /\ xfer' = [xfer EXCEPT !.result = "false"]
    /\ UNCHANGED xfervars
    /\ UNCHANGED pmvars
    /\ UNCHANGED sidevars

\* Step 3: Request Transfer Exit, once the loop has sent every byte.
TransferExit ==
    /\ pc = "x36"
    /\ xfer.total_sent >= xfer.file_size
    /\ \E rsp \in UdsResponses :
        /\ Diagnostic(55, << 55 >>, 0, rsp)
        /\ Inject(Cost(Positive(rsp, 119)))
        /\ pc' = "xret"
        /\ xfer' = [xfer EXCEPT !.result =
                       IF Positive(rsp, 119) THEN "true" ELSE "false"]
    /\ UNCHANGED xfervars
    /\ UNCHANGED pmvars
    /\ UNCHANGED sidevars

\* A loop that goes on to the next zone whatever the transfer returned.
SendZoneFailedIgnored(x) == FALSE

\* if (!sendZonePackageToZGW(zone)) in the loop of startVehicleOTA.
SendZoneFailed(x) == x.result # "true"

\* transferZonePackageViaUDS has returned: the rest of the loop body of
\* startVehicleOTA, and its end after the last zone.
ZoneReturn ==
    /\ pc = "xret"
    /\ mode = "vehicle"
    /\ LET percentage == ((zi * 100) \div Len(zone_packages_)) % 256
           pr1 == [progress_ EXCEPT !.percentage = percentage]
           pr2 == updateState(pr1, "COMPLETED", "All Zone Packages sent to ZGWs")
       IN  IF SendZoneFailed(xfer)
           THEN Fail(progress_, SendFailed) /\ zi' = zi
           ELSE IF zi < Len(zone_packages_)
           THEN /\ progress_' = pr1
                /\ reports' = Append(reports, pr1)
                /\ zi' = zi + 1
                /\ pc' = "zone"
                /\ UNCHANGED << ret, current_state_ >>
           ELSE /\ progress_' = pr2
                /\ reports' = reports \o << pr1, pr2 >>
                /\ current_state_' = "COMPLETED"
                /\ zi' = zi
                /\ pc' = "idle"
                /\ ret' = "true"
    /\ Inject(0)
    /\ UNCHANGED << mode, calls, package_info_, n_http, dl, dl_file >>
    /\ UNCHANGED << vpkg, zone_packages_, zone_files, doip_clients_, xfer,
                    uds_log >>
    /\ UNCHANGED pmvars
    /\ UNCHANGED sidevars

(***************************************************************************)
(* The process                                                             *)
(***************************************************************************)
\* The partition files of a system that does not run on the simulation
\* files: a file that holds nothing beyond its metadata block, or one with
\* zero bytes behind it.
DevBodies == { << >>, Zeros(OTA_DOWNLOAD_CHUNK_SIZE + 1) }

Init ==
    /\ pc = "idle"
    /\ mode = "self"
    /\ ret = "none"
    /\ calls = 0
    /\ faults = 0
    /\ current_state_ = "IDLE"
    /\ progress_ = ZeroProgress
    /\ package_info_ = NoPackage
    /\ reports = << >>
    /\ n_http = 0
    /\ dl = NoDownload
    /\ dl_file = << >>
    /\ vpkg = NoVehiclePackage
    /\ zone_packages_ = << >>
    /\ zone_files = [z \in ZoneNumbers |-> NoZoneFile]
    /\ zi = 0
    /\ doip_clients_ = << >>
    /\ xfer = NoTransfer
    /\ uds_log = << >>
    /\ state_ = "IDLE"
    /\ socket_fd_ = -1
    /\ doip_pc = "idle"
    /\ doip_ret = [op |-> "none", ok |-> FALSE, response |-> << >>,
                   report |-> << >>]
    /\ wire = << >>
    /\ activated = FALSE
    /\ cancel_ret = "none"
    /\ vci_list = << >>
    /\ inbox = << >>
    /\ boot_status_ = DefaultBootStatus
    /\ active_partition_ = "A"
    /\ bs_file = [present |-> TRUE, len |-> BootStatusSize, rec |-> DefaultBootStatus]
    /\ simulation_mode_ \in BOOLEAN
    /\ IF simulation_mode_
       THEN dev = [p \in Partitions |-> SimDevice]
       ELSE \E b \in DevBodies :
                dev = [p \in Partitions |-> [meta |-> NoMetadata, body |-> b]]

\* The process is started again: the managers are constructed anew and
\* PartitionManager::initialize() runs; the files stay as they are.
Restart ==
    /\ pc = "idle"
    /\ Initialize
    /\ ret' = "none"
    /\ current_state_' = "IDLE"
    /\ progress_' = ZeroProgress
    /\ package_info_' = NoPackage
    /\ reports' = << >>
    /\ n_http' = 0
    /\ dl' = NoDownload
    /\ zone_packages_' = << >>
    /\ zi' = 0
    /\ doip_clients_' = << >>
    /\ xfer' = NoTransfer
    /\ uds_log' = << >>
    /\ UNCHANGED << pc, mode, calls, dl_file, vpkg, zone_files >>
    /\ state_' = "IDLE"
    /\ socket_fd_' = -1
    /\ doip_pc' = "idle"
    /\ doip_ret' = [op |-> "none", ok |-> FALSE, response |-> << >>,
                    report |-> << >>]
    /\ wire' = << >>
    /\ activated' = FALSE
    /\ cancel_ret' = "none"
    /\ vci_list' = << >>
    /\ inbox' = << >>

BootAttempt ==
    /\ pc = "idle"
    /\ IncrementBootCount
    /\ UNCHANGED otavars
    /\ UNCHANGED vehvars
    /\ UNCHANGED sidevars

Rollback ==
    /\ pc = "idle"
    /\ isRollbackNeeded(boot_status_)
    /\ PerformRollback
    /\ UNCHANGED otavars
    /\ UNCHANGED vehvars
    /\ UNCHANGED sidevars

vars == << pc, mode, ret, calls, current_state_, progress_, package_info_,
           reports, n_http, dl, dl_file, boot_status_,
           active_partition_, bs_file, dev, simulation_mode_, vpkg,
           zone_packages_, zone_files, zi, doip_clients_, xfer, uds_log,
           faults, state_, socket_fd_, doip_pc, doip_ret, wire, activated,
           cancel_ret, vci_list, inbox >>

Next ==
    \/ StartOTA
    \/ StartVehicleOTA
    \/ StartRejected
    \/ DownloadAttempt
    \/ DownloadDone
    \/ VerifyPackage
    \/ InstallPackage
    \/ VehicleParse
    \/ ZoneConnect
    \/ RequestDownload
    \/ TransferData
    \/ TransferExit
    \/ ZoneReturn
    \/ Restart

Spec == Init /\ [][Next]_vars

\* The self-update on its own, between boots that count their attempts.
NextSelf ==
    \/ StartOTA
    \/ StartRejected
    \/ DownloadAttempt
    \/ DownloadDone
    \/ VerifyPackage
    \/ InstallPackage
    \/ Restart
    \/ BootAttempt

SpecSelf == Init /\ [][NextSelf]_vars

\* The partition manager on its own: its public operations in any order.
SetState ==
    /\ pc = "idle"
    /\ \E p \in Partitions, st \in PartitionStates : SetPartitionState(p, st)
    /\ UNCHANGED otavars
    /\ UNCHANGED vehvars
    /\ UNCHANGED sidevars

SwitchTarget ==
    /\ pc = "idle"
    /\ \E target \in Partitions : SwitchBootTarget(target)
    /\ UNCHANGED otavars
    /\ UNCHANGED vehvars
    /\ UNCHANGED sidevars

\* performRollback called whatever the boot count.
RollbackCall ==
    /\ pc = "idle"
    /\ PerformRollback
    /\ UNCHANGED otavars
    /\ UNCHANGED vehvars
    /\ UNCHANGED sidevars

NextPM ==
    \/ SetState
    \/ SwitchTarget
    \/ BootAttempt
    \/ Rollback
    \/ RollbackCall
    \/ Restart

\* SystemManager constructs its PartitionManager in simulation mode.
InitPM == Init /\ simulation_mode_

SpecPM == InitPM /\ [][NextPM]_vars

(***************************************************************************)
(* transferZonePackageViaUDS on its own                                    *)
(***************************************************************************)
\* The zone files handed to one transfer, up to the file whose block
\* counter wraps.
XferSizes ==
    { 0, 1, UdsChunkSize, UdsChunkSize + 1, WrapBlocks * UdsChunkSize }

\* transferZonePackageViaUDS called with a client and a zone file that was
\* read: the function uses nothing else of the orchestrator, whose other
\* fields stay as constructed.
InitXfer ==
    /\ pc = "x34"
    /\ mode = "vehicle"
    /\ ret = "none"
    /\ calls = 0
    /\ faults = 0
    /\ current_state_ = "IDLE"
    /\ progress_ = ZeroProgress
    /\ package_info_ = NoPackage
    /\ reports = << >>
    /\ n_http = 0
    /\ dl = NoDownload
    /\ dl_file = << >>
    /\ vpkg = NoVehiclePackage
    /\ zone_packages_ = << >>
    /\ zone_files = [z \in ZoneNumbers |-> NoZoneFile]
    /\ zi = 1
    /\ \E c \in { "IDLE", "ACTIVE" } : doip_clients_ = << c >>
    /\ \E n \in XferSizes :
        xfer = [file_size |-> n, total_sent |-> 0, block_sequence |-> 1,
                result |-> "none"]
    /\ uds_log = << >>
    /\ state_ = "IDLE"
    /\ socket_fd_ = -1
    /\ doip_pc = "idle"
    /\ doip_ret = [op |-> "none", ok |-> FALSE, response |-> << >>,
                   report |-> << >>]
    /\ wire = << >>
    /\ activated = FALSE
    /\ cancel_ret = "none"
    /\ vci_list = << >>
    /\ inbox = << >>
    /\ boot_status_ = DefaultBootStatus
    /\ active_partition_ = "A"
    /\ bs_file = [present |-> TRUE, len |-> BootStatusSize, rec |-> DefaultBootStatus]
    /\ simulation_mode_ = TRUE
    /\ dev = [p \in Partitions |-> SimDevice]

NextXfer ==
    \/ RequestDownload
    \/ TransferData
    \/ TransferExit

SpecXfer == InitXfer /\ [][NextXfer]_vars

(***************************************************************************)
(* downloadPackage on a package of many chunks                             *)
(***************************************************************************)
\* A package whose chunks are each less than 5% of the whole.
LongPackageInfos ==
    { [package_size |-> k * OTA_DOWNLOAD_CHUNK_SIZE, firmware_version |-> 1,
       sha256_hash |-> GoodHash(k * OTA_DOWNLOAD_CHUNK_SIZE)] :
         k \in { MaxLongChunks } }

StartLongOTA ==
    /\ pc = "idle" /\ calls < MaxCalls
    /\ \E info \in LongPackageInfos : Start("self", info, 0)
    /\ UNCHANGED vehvars
    /\ UNCHANGED pmvars
    /\ UNCHANGED sidevars

NextLong ==
    \/ StartLongOTA
    \/ DownloadAttempt
    \/ DownloadDone

SpecLong == InitPM /\ [][NextLong]_vars

(***************************************************************************)
(* downloadPackage on a package of tens of megabytes                       *)
(***************************************************************************)
\* Packages of more than 2^32 / 100 bytes.
BigPackageInfos ==
    { [package_size |-> k * OTA_DOWNLOAD_CHUNK_SIZE, firmware_version |-> 1,
       sha256_hash |-> << >>] : k \in { MaxBigChunks } }

StartBigOTA ==
    /\ pc = "idle" /\ calls < MaxCalls
    /\ \E info \in BigPackageInfos : Start("self", info, 0)
    /\ UNCHANGED vehvars
    /\ UNCHANGED pmvars
    /\ UNCHANGED sidevars

\* The passes of the download loop against a server that answers every
\* range request with that range.
DownloadFromRangeServer == DownloadAttemptOf({ "range" })

NextBig ==
    \/ StartBigOTA
    \/ DownloadFromRangeServer

SpecBig == InitPM /\ [][NextBig]_vars

(***************************************************************************)
(* cancelOTA beside a running self-update                                  *)
(***************************************************************************)
CancelMessage == "OTA cancelled by user"

\* OTAManager::cancelOTA, called from outside the thread that runs
\* startOTA, at any point between two of its steps.
CancelOTA ==
    /\ IF ~isOTAInProgress(current_state_)
       THEN /\ cancel_ret' = "false"
            /\ UNCHANGED << current_state_, progress_, reports >>
       ELSE /\ progress_' = reportError(progress_, CancelMessage)
            /\ reports' = Append(reports, progress_')
            /\ current_state_' = "IDLE"
            /\ cancel_ret' = "true"
    /\ UNCHANGED << pc, mode, ret, calls, package_info_, n_http, dl, dl_file >>
    /\ UNCHANGED << vehvars, pmvars, doipvars, faults, rxvars >>

NextCancel ==
    \/ StartOTA
    \/ DownloadAttempt
    \/ DownloadDone
    \/ VerifyPackage
    \/ InstallPackage
    \/ CancelOTA

SpecCancel == Init /\ [][NextCancel]_vars

(***************************************************************************)
(* The main loop: calls made one after the other on one thread             *)
(***************************************************************************)
\* A loop that lets every exception pass.
TerminatedNever(r) == FALSE

\* runDaemon and processEvents have no handler: an exception that leaves a
\* start call leaves the loop too, and the loop makes no further call.
Terminated(r) == r = "thrown"

\* processEvents on the OTA trigger: startOTA, whatever the state.
LoopStartOTA ==
    /\ ~Terminated(ret)
    /\ IF isOTAInProgress(current_state_) THEN StartRejected ELSE StartOTA

\* The same caller with startVehicleOTA.
LoopStartVehicleOTA ==
    /\ ~Terminated(ret)
    /\ IF isOTAInProgress(current_state_) THEN StartRejected
       ELSE StartVehicleOTA

\* cancelOTA called from the loop, between two calls.
LoopCancelOTA ==
    /\ ~Terminated(ret)
    /\ pc = "idle"
    /\ CancelOTA

NextLoop ==
    \/ LoopStartOTA
    \/ LoopStartVehicleOTA
    \/ LoopCancelOTA
    \/ DownloadAttempt
    \/ DownloadDone
    \/ VerifyPackage
    \/ InstallPackage
    \/ VehicleParse
    \/ ZoneConnect
    \/ RequestDownload
    \/ TransferData
    \/ TransferExit
    \/ ZoneReturn
    \/ Restart

SpecLoop == Init /\ [][NextLoop]_vars

(***************************************************************************)
(* DoIPClient: connection and diagnostic requests                          *)
(***************************************************************************)
DoIPClientStates == { "IDLE", "CONNECTING", "CONNECTED", "ACTIVE", "ERROR" }

\* What receiveRaw hands back: nothing (poll error, timeout, receive error,
\* peer close), or one DoIP message of header and payload.
NoMessage ==
    [present |-> FALSE, version |-> 0, inverse |-> 0, payload_type |-> 0,
     payload |-> << >>]

\* A payload of len bytes whose fifth byte is code: the response code of a
\* Routing Activation Response, the first UDS byte of a diagnostic message.
PayloadOf(len, code) == [i \in 1..len |-> IF i = 5 THEN code ELSE 0]

Payloads ==
    { PayloadOf(len, code) : len \in { 0, 4, 8, 9 }, code \in { 0, 16, 113 } }

Messages ==
    { NoMessage } \cup
    [present : { TRUE },
     version : { DOIP_PROTOCOL_VERSION, DOIP_PROTOCOL_VERSION + 1 },
     inverse : { DOIP_INVERSE_VERSION },
     payload_type : { ROUTING_ACTIVATION_RESPONSE, DIAGNOSTIC_MESSAGE },
     payload : Payloads]

\* DoIPClient::parseDoIPMessage on a message receiveRaw has assembled.
parseDoIPMessage(response) ==
    /\ response.present
    /\ response.version = DOIP_PROTOCOL_VERSION
    /\ response.inverse = DOIP_INVERSE_VERSION

\* The response the protocol counts as a successful activation: a Routing
\* Activation Response (0x0006) of at least 9 payload bytes with code 0x10.
GoodActivation(response) ==
    /\ response.present
    /\ response.payload_type = 6
    /\ Len(response.payload) >= 9
    /\ response.payload[5] = 16

\* A routing activation that takes any response code for success.
RoutingAcceptedAnyCode(response) ==
    /\ parseDoIPMessage(response)
    /\ response.payload_type = ROUTING_ACTIVATION_RESPONSE
    /\ Len(response.payload) >= RoutingPayloadMin

\* The checks of activateRouting on the received response.
RoutingAccepted(response) ==
    /\ parseDoIPMessage(response)
    /\ response.payload_type = ROUTING_ACTIVATION_RESPONSE
    /\ Len(response.payload) >= RoutingPayloadMin
    /\ response.payload[5] = RoutingSuccess

\* The checks of sendDiagnosticMessage on the received response, and the
\* UDS bytes it hands back.
DiagnosticResponse(response) ==
    IF /\ parseDoIPMessage(response)
       /\ response.payload_type = DIAGNOSTIC_MESSAGE
       /\ Len(response.payload) >= DiagPayloadMin
    THEN SubSeq(response.payload, 5, Len(response.payload))
    ELSE << >>

\* DoIPClient::sendRaw: nothing goes out on a closed socket or when send()
\* fails; send() can also take only a part of the message.
SendOutcomes == { "fail", "partial", "ok" }

sendRaw(fd, outcome) == fd >= 0 /\ outcome = "ok"

WireAfter(fd, outcome, message) ==
    IF fd >= 0 /\ outcome # "fail"
    THEN Append(wire, [message EXCEPT !.complete = (outcome = "ok")])
    ELSE wire

\* What a call hands back; report is the payload of the report message a
\* report request has read, with its payload type in front.
DoIPResult(op, ok, response) ==
    [op |-> op, ok |-> ok, response |-> response, report |-> << >>]

\* A client that sends whatever its state is.
isActiveAlways(st) == TRUE

\* DoIPClient::isActive.
isActive(st) == st = "ACTIVE"

\* The descriptor socket() hands out; the lowest free one, so the same
\* number again after a close.
SocketFd == 3

\* A connect() that never takes the early return.
AlreadyActiveNever(st) == FALSE

\* The test at the head of connect().
AlreadyActive(st) == st = "ACTIVE"

\* connect() up to the TCP connection: the early return of an ACTIVE
\* client, disconnect(), socket(), inet_pton() and ::connect().
ConnectTcp ==
    /\ doip_pc = "idle"
    /\ \E o \in { "no_socket", "bad_address", "refused", "connected" } :
        IF AlreadyActive(state_)
        THEN /\ o = "connected"
             /\ doip_ret' = DoIPResult("connect", TRUE, << >>)
             /\ UNCHANGED << state_, socket_fd_, doip_pc, wire, activated >>
        ELSE /\ activated' = FALSE
             /\ wire' = wire
             /\ IF o = "connected"
                THEN /\ state_' = "CONNECTED"
                     /\ socket_fd_' = SocketFd
                     /\ doip_pc' = "routing"
                     /\ doip_ret' = doip_ret
                ELSE /\ state_' = "ERROR"
                     /\ socket_fd_' = -1
                     /\ doip_pc' = "idle"
                     /\ doip_ret' = DoIPResult("connect", FALSE, << >>)
    /\ inbox' = IF AlreadyActive(state_) THEN inbox ELSE << >>
    /\ UNCHANGED << otavars, vehvars, pmvars, faults, cancel_ret, vci_list >>

\* The rest of connect(): activateRouting(), then ACTIVE, or disconnect()
\* and false.
ActivateRouting ==
    /\ doip_pc = "routing"
    /\ Len(wire) < MaxWire
    /\ \E o \in SendOutcomes : \E response \in Messages :
        LET sent   == sendRaw(socket_fd_, o)
            result == sent /\ RoutingAccepted(response)
        IN  /\ ~sent => response = NoMessage
            /\ wire' = WireAfter(socket_fd_, o,
                          [payload_type |-> ROUTING_ACTIVATION_REQUEST,
                           service_id |-> 0, state |-> state_,
                           complete |-> TRUE])
            /\ doip_pc' = "idle"
            /\ doip_ret' = DoIPResult("connect", result, << >>)
            /\ IF result
               THEN /\ state_' = "ACTIVE"
                    /\ socket_fd_' = socket_fd_
                    /\ activated' = GoodActivation(response)
               ELSE /\ state_' = "IDLE"
                    /\ socket_fd_' = -1
                    /\ activated' = FALSE
            /\ inbox' = IF result THEN inbox ELSE << >>
    /\ UNCHANGED << otavars, vehvars, pmvars, faults, cancel_ret, vci_list >>

\* DoIPClient::disconnect.
Disconnect ==
    /\ doip_pc = "idle"
    /\ state_' = "IDLE"
    /\ socket_fd_' = -1
    /\ activated' = FALSE
    /\ doip_ret' = DoIPResult("disconnect", TRUE, << >>)
    /\ UNCHANGED << doip_pc, wire >>
    /\ inbox' = << >>
    /\ UNCHANGED << otavars, vehvars, pmvars, faults, cancel_ret, vci_list >>

\* One call of sendDiagnosticMessage(service_id, data), made by op.  A
\* caller on another thread can make it while connect() is on its way.
DiagnosticCall(op, service_id) ==
    /\ Len(wire) < MaxWire
    /\ \E o \in SendOutcomes : \E response \in Messages :
        IF ~isActive(state_)
        THEN /\ o = "ok" /\ response = NoMessage
             /\ doip_ret' = DoIPResult(op, FALSE, << >>)
             /\ wire' = wire
        ELSE LET sent == sendRaw(socket_fd_, o)
                 uds  == IF sent THEN DiagnosticResponse(response) ELSE << >>
             IN  /\ ~sent => response = NoMessage
                 /\ wire' = WireAfter(socket_fd_, o,
                               [payload_type |-> DIAGNOSTIC_MESSAGE,
                                service_id |-> service_id, state |-> state_,
                                complete |-> TRUE])
                 /\ doip_ret' = DoIPResult(op, uds # << >>, uds)
    /\ UNCHANGED << state_, socket_fd_, doip_pc, activated >>
    /\ UNCHANGED << otavars, vehvars, pmvars, faults, cancel_ret, rxvars >>

SendDiagnosticMessage ==
    \E service_id \in { 52, 54, 55 } :
        DiagnosticCall("sendDiagnosticMessage", service_id)

\* DoIPClient::sendRoutineControl: sendDiagnosticMessage(0x31, ...).
SendRoutineControl == DiagnosticCall("sendRoutineControl", ROUTINE_CONTROL)

NextDoIP ==
    \/ ConnectTcp
    \/ ActivateRouting
    \/ Disconnect
    \/ SendDiagnosticMessage
    \/ SendRoutineControl

SpecDoIP == Init /\ [][NextDoIP]_vars

(***************************************************************************)
(* DoIPClient: requests and the responses that come late                   *)
(***************************************************************************)
\* The number of diagnostic requests that went out on the wire.
RequestsSent(w) ==
    Len(SelectSeq(w, LAMBDA e : e.payload_type = DIAGNOSTIC_MESSAGE))

\* The ZGW's positive response to the n-th Transfer Data request, which
\* carries block counter n: 0x76 and the counter.
ReplyTo(n) ==
    [present |-> TRUE, version |-> DOIP_PROTOCOL_VERSION,
     inverse |-> DOIP_INVERSE_VERSION, payload_type |-> DIAGNOSTIC_MESSAGE,
     payload |-> << 0, 0, 0, 0, 118, n >>]

\* When the response of the ZGW reaches the socket: before the timeout of
\* receiveRaw, after it, or never.
ReplyTimings == { "in_time", "late", "never" }

\* sendDiagnosticMessage(0x36, ...) on a socket that keeps what arrived and
\* was not read: receiveRaw hands back the message at the head of what the
\* socket holds, and nothing when the timeout ends with the socket empty.
PairedRequest ==
    /\ doip_pc = "idle"
    /\ Len(wire) < MaxWire
    /\ \E o \in SendOutcomes : \E timing \in ReplyTimings :
        LET active  == isActive(state_)
            sent    == active /\ sendRaw(socket_fd_, o)
            reply   == ReplyTo(RequestsSent(wire) + 1)
            arrived == IF sent /\ timing = "in_time"
                       THEN Append(inbox, reply) ELSE inbox
            message == IF sent /\ arrived # << >> THEN Head(arrived)
                       ELSE NoMessage
            left    == IF sent /\ arrived # << >> THEN Tail(arrived)
                       ELSE arrived
            uds     == IF sent THEN DiagnosticResponse(message) ELSE << >>
        IN  /\ ~active => o = "ok"
            /\ ~sent => timing = "never"
            /\ wire' = IF active
                       THEN WireAfter(socket_fd_, o,
                                [payload_type |-> DIAGNOSTIC_MESSAGE,
                                 service_id |-> 54,
                                 state |-> state_, complete |-> TRUE])
                       ELSE wire
            /\ inbox' = IF sent /\ timing = "late" THEN Append(left, reply)
                        ELSE left
            /\ doip_ret' = DoIPResult("sendDiagnosticMessage", uds # << >>, uds)
    /\ UNCHANGED << state_, socket_fd_, doip_pc, activated >>
    /\ UNCHANGED << otavars, vehvars, pmvars, faults, cancel_ret, vci_list >>

NextPairing ==
    \/ ConnectTcp
    \/ ActivateRouting
    \/ Disconnect
    \/ PairedRequest

SpecPairing == Init /\ [][NextPairing]_vars

(***************************************************************************)
(* DoIPClient: the routine-control requests of VCI and readiness           *)
(***************************************************************************)
CollectionOps == { "requestVCICollection", "requestReadinessCheck" }
ReportOps == { "requestVCIReport", "requestReadinessReport" }

\* The DoIP payload of a diagnostic response: source and target address,
\* then len UDS bytes, of which the first is sid and the fifth, where the
\* response is that long, the status of the routine.
RoutinePayload(len, sid, status) ==
    [i \in 1..(4 + len) |->
        IF i = 5 THEN sid ELSE IF i = 9 THEN status ELSE 0]

RoutineMessages ==
    { NoMessage } \cup
    [present : { TRUE },
     version : { DOIP_PROTOCOL_VERSION },
     inverse : { DOIP_INVERSE_VERSION },
     payload_type : { DIAGNOSTIC_MESSAGE },
     payload : { RoutinePayload(len, sid, status) :
                   len \in { 1, 4, 5, 6 }, sid \in { RoutinePositive, 127 },
                   status \in { 0, 1 } }]

\* response[4] as requestVCICollection and requestReadinessCheck read it:
\* the fifth byte where the vector has one, and otherwise whatever lies
\* behind the end of the vector, zero or not.
StatusRead(response) ==
    IF Len(response) >= 5 THEN { response[5] } ELSE { 0, 1 }

\* The test of requestVCICollection and requestReadinessCheck on the UDS
\* response, status being the byte read as response[4].
CollectionAccepted(response, status) ==
    /\ response # << >>
    /\ response[1] = RoutinePositive
    /\ Len(response) >= 4
    /\ status = 0

\* The test after which requestVCIReport and requestReadinessReport go on
\* to wait for the report message.
ReportAwaited(response) ==
    /\ response # << >>
    /\ ~(response[1] # RoutinePositive \/ Len(response) < 5)

\* One of the four requests up to its test of the routine-control
\* response: sendRoutineControl(rid, 0x01), which is sendDiagnosticMessage
\* with service 0x31, and the test.
RoutineRequest(op) ==
    /\ doip_pc = "idle"
    /\ Len(wire) < MaxWire
    /\ \E o \in SendOutcomes : \E response \in RoutineMessages :
        LET active == isActive(state_)
            sent   == active /\ sendRaw(socket_fd_, o)
            uds    == IF sent THEN DiagnosticResponse(response) ELSE << >>
        IN  /\ ~active => o = "ok"
            /\ ~sent => response = NoMessage
            /\ wire' = IF active
                       THEN WireAfter(socket_fd_, o,
                                [payload_type |-> DIAGNOSTIC_MESSAGE,
                                 service_id |-> ROUTINE_CONTROL,
                                 state |-> state_, complete |-> TRUE])
                       ELSE wire
            /\ IF op \in CollectionOps
               THEN /\ \E status \in StatusRead(uds) :
                        doip_ret' = DoIPResult(op,
                                       CollectionAccepted(uds, status), uds)
                    /\ doip_pc' = doip_pc
               ELSE /\ doip_ret' = DoIPResult(op, FALSE, uds)
                    /\ doip_pc' = IF ReportAwaited(uds) THEN "report"
                                  ELSE doip_pc
    /\ UNCHANGED << state_, socket_fd_, activated >>
    /\ UNCHANGED << otavars, vehvars, pmvars, faults, cancel_ret, rxvars >>

RequestCollection == \E op \in CollectionOps : RoutineRequest(op)

RequestReport == \E op \in ReportOps : RoutineRequest(op)

\* The payloads of a report message: none, a count of 0, a count of 1 with
\* no entry behind it, a count of 1 with an entry of size bytes, a count
\* of 2 with two entries that differ in their first byte.
ReportPayloads(size) ==
    { << >>, << 0 >>, << 1 >>,
      [i \in 1..(1 + size) |-> IF i = 1 THEN 1 ELSE 0],
      [i \in 1..(1 + 2 * size) |->
          IF i = 1 THEN 2 ELSE IF i = 2 THEN 7 ELSE IF i = 2 + size THEN 8
          ELSE 0] }

ReportMessages ==
    { NoMessage } \cup
    [present : { TRUE },
     version : { DOIP_PROTOCOL_VERSION },
     inverse : { DOIP_INVERSE_VERSION },
     payload_type : { VCI_REPORT, READINESS_REPORT },
     payload : ReportPayloads(VCIInfoSize) \cup ReportPayloads(ReadinessInfoSize)]

\* A test of the report message that takes either report type.
ReportAcceptedAnyType(op, report) ==
    LET size == IF op = "requestVCIReport" THEN VCIInfoSize
                ELSE ReadinessInfoSize
    IN  /\ parseDoIPMessage(report)
        /\ report.payload_type \in { VCI_REPORT, READINESS_REPORT }
        /\ report.payload # << >>
        /\ Len(report.payload) >= 1 + report.payload[1] * size

\* The tests of requestVCIReport and requestReadinessReport on the report
\* message.
ReportAccepted(op, report) ==
    LET size == IF op = "requestVCIReport" THEN VCIInfoSize
                ELSE ReadinessInfoSize
        type == IF op = "requestVCIReport" THEN VCI_REPORT
                ELSE READINESS_REPORT
    IN  /\ parseDoIPMessage(report)
        /\ report.payload_type = type
        /\ report.payload # << >>
        /\ Len(report.payload) >= 1 + report.payload[1] * size

\* The list the copy loop builds: count entries of size bytes each, taken
\* from the payload behind its count byte, in order.
ReportEntries(payload, size) ==
    [k \in 1..payload[1] |->
        SubSeq(payload, 2 + (k - 1) * size, 1 + k * size)]

\* The rest of requestVCIReport and requestReadinessReport: receiveRaw for
\* the report message, its tests, and the list cleared and filled.
ReceiveReport ==
    /\ doip_pc = "report"
    /\ \E report \in ReportMessages :
        LET ok   == ReportAccepted(doip_ret.op, report)
            size == IF doip_ret.op = "requestVCIReport" THEN VCIInfoSize
                    ELSE ReadinessInfoSize
        IN  /\ doip_ret' = [doip_ret EXCEPT !.ok = ok,
                  !.report = IF report.present
                             THEN << report.payload_type >> \o report.payload
                             ELSE << >>]
            /\ vci_list' = IF ok THEN ReportEntries(report.payload, size)
                           ELSE vci_list
    /\ doip_pc' = "idle"
    /\ UNCHANGED << state_, socket_fd_, wire, activated, inbox >>
    /\ UNCHANGED << otavars, vehvars, pmvars, faults, cancel_ret >>

NextRoutine ==
    \/ ConnectTcp
    \/ ActivateRouting
    \/ Disconnect
    \/ RequestCollection
    \/ RequestReport
    \/ ReceiveReport

SpecRoutine == Init /\ [][NextRoutine]_vars

(***************************************************************************)
(* Properties                                                              *)
(***************************************************************************)
NBlocks(n) == (n + UdsChunkSize - 1) \div UdsChunkSize

ExpectedService(n, k) ==
    IF k = 1 THEN 52 ELSE IF k <= 1 + NBlocks(n) THEN 54 ELSE 55

Answered(e) == e.rsp # << >> /\ e.rsp[1] = e.service_id + 64

\* C1: a transfer puts on the wire a prefix of one 0x34, one 0x36 for every
\* 1024-byte block of the file and one 0x37; a request follows only a
\* request that got its positive response (0x74, 0x76, 0x77); once a
\* response is empty or not the positive one the transfer has returned
\* failure; and it returns success only with the whole sequence sent and
\* 0x77 received.
C1_TransferSequence ==
    LET n == xfer.file_size
        L == Len(uds_log)
    IN  /\ L <= NBlocks(n) + 2
        /\ \A k \in 1..L : uds_log[k].service_id = ExpectedService(n, k)
        /\ \A k \in 1..(L - 1) : Answered(uds_log[k])
        /\ (L > 0 /\ ~Answered(uds_log[L]))
              => (pc = "xret" /\ xfer.result = "false")
        /\ xfer.result = "true"
              => /\ L = NBlocks(n) + 2
                 /\ uds_log[L].service_id = 55
                 /\ Answered(uds_log[L])

\* A transfer of a file of two blocks has returned success.
C1_Witness ==
    /\ pc = "xret"
    /\ xfer.result = "true"
    /\ xfer.file_size = UdsChunkSize + 1
    /\ Len(uds_log) = 4

Blocks == SelectSeq(uds_log, LAMBDA e : e.service_id = 54)

\* C2: the first Transfer Data request carries block counter 1, every
\* later one the counter of the one before plus 1 modulo 256, so the k-th
\* carries k mod 256; a transfer that succeeds has sent one block for
\* every 1024 bytes of the file.
C2_BlockCounter ==
    /\ \A k \in 1..Len(Blocks) :
        /\ Blocks[k].payload[2] = k % 256
        /\ k = 1 => Blocks[k].payload[2] = 1
        /\ k > 1 => Blocks[k].payload[2] = (Blocks[k - 1].payload[2] + 1) % 256
    /\ xfer.result = "true" => Len(Blocks) = NBlocks(xfer.file_size)

\* The transfer of a 260 KiB file has succeeded with 260 blocks, the 255th
\* numbered 255, the 256th 0 and the last 4.
C2_Witness ==
    /\ xfer.result = "true"
    /\ xfer.file_size = 260 * 1024
    /\ Len(Blocks) = 260
    /\ Blocks[255].payload[2] = 255
    /\ Blocks[256].payload[2] = 0
    /\ Blocks[260].payload[2] = 4

\* C3: the zones are transferred one at a time in the order of the zone
\* reference table: the requests of zone i+1 come after all requests of
\* zone i, the 0x34 of a zone announces the size of its table entry, and
\* the 0x34 of zone i+1 is sent only after the 0x37 of zone i got 0x77.
C3_ZoneOrder ==
    \A j \in 1..Len(uds_log) :
        LET e == uds_log[j]
        IN  /\ e.zone \in 1..Len(vpkg.zones)
            /\ j > 1 => uds_log[j - 1].zone <= e.zone
            /\ e.service_id = 52
                 => /\ e.payload = << 52 >> \o BE4(vpkg.zones[e.zone].size)
                    /\ e.zone > 1
                         => \E i \in 1..(j - 1) :
                               /\ uds_log[i].zone = e.zone - 1
                               /\ uds_log[i].service_id = 55
                               /\ Answered(uds_log[i])

\* The second zone's Request Download has been sent.
C3_Witness ==
    \E j \in 1..Len(uds_log) :
        uds_log[j].zone = 2 /\ uds_log[j].service_id = 52

\* The partition a self-update writes: the standby partition of the
\* manager's active partition.
Written == getStandbyPartition(active_partition_)

SelfReturned(r) == pc = "idle" /\ mode = "self" /\ calls > 0 /\ ret = r

\* C4: when startOTA returns true the partition it wrote is READY and is
\* the boot target, and the boot count is 0.
C4_AfterSuccess ==
    [][ (pc = "install" /\ pc' = "idle" /\ ret' = "true")
          => /\ getPartitionState(boot_status_', Written) = "READY"
             /\ boot_status_'.boot_target = Written
             /\ boot_status_'.boot_count = 0
             /\ dev'[Written].meta = InstallMetadata(package_info_) ]_vars

\* startOTA has returned true for a package of more than one chunk.
C4_Witness ==
    /\ SelfReturned("true")
    /\ current_state_ = "COMPLETED"
    /\ package_info_.package_size > OTA_DOWNLOAD_CHUNK_SIZE

\* C5: the boot target is A or B and its state is READY or ACTIVE.
C5_BootTargetBootable ==
    /\ boot_status_.boot_target \in Partitions
    /\ getPartitionState(boot_status_, boot_status_.boot_target)
         \in { "READY", "ACTIVE" }

\* C6: a start call that has ended otherwise than by returning true leaves
\* the state ERROR and a last report with an error message.
C6_FailureIsError ==
    (pc = "idle" /\ calls > 0 /\ ret \in { "false", "thrown" })
        => /\ current_state_ = "ERROR"
           /\ reports # << >>
           /\ reports[Len(reports)].error_message # ""

\* C7: when installPackage has failed the standby partition is in state
\* ERROR and so is the OTA.
C7_InstallFailureMarked ==
    (SelfReturned("false") /\ progress_.error_message = "Installation failed")
        => /\ getPartitionState(boot_status_, Written) = "ERROR"
           /\ current_state_ = "ERROR"

\* C8: a startOTA that ends in ERROR leaves the boot target what it was
\* (only installPackage touches the boot status during a call).
C8_BootTargetKept ==
    [][ (pc = "install" /\ current_state_' = "ERROR")
          => boot_status_'.boot_target = boot_status_.boot_target ]_vars

\* C9: with no failure injected, a package that passed verifyPackage is
\* installed with success on a device that has room for it.
C9_InstallOnAnyDevice ==
    (/\ pc = "idle" /\ mode = "self" /\ calls > 0 /\ faults = 0
     /\ ret = "false"
     /\ package_info_.package_size > 0
     /\ Size(dev[Written].body) >= package_info_.package_size)
        => progress_.error_message # "Installation failed"

\* C10: a start call made while an OTA is in progress returns false and
\* changes neither the state, the package info, the progress, the files
\* nor the partitions, and sends no HTTP request, no progress report and
\* no diagnostic request.
C10_RejectedChangesNothing ==
    [][ (calls' = calls + 1 /\ isOTAInProgress(current_state_))
          => /\ ret' = "false"
             /\ UNCHANGED << pc, current_state_, package_info_, progress_,
                             reports, n_http, dl, dl_file >>
             /\ UNCHANGED vehvars
             /\ UNCHANGED pmvars ]_vars

\* A start call has been rejected: two calls were made and the OTA of the
\* first is still in progress.
C10_Witness ==
    /\ pc = "idle"
    /\ calls = MaxCalls + 1
    /\ ret = "false"
    /\ isOTAInProgress(current_state_)

(***************************************************************************)
(* DoIP client                                                             *)
(***************************************************************************)
DiagnosticOps == { "sendDiagnosticMessage", "sendRoutineControl" }

\* A step that is a diagnostic request: only such a call leaves its own
\* name in doip_ret.
DiagnosticStep ==
    /\ doip_ret'.op \in DiagnosticOps
    /\ << doip_ret, wire >>' # << doip_ret, wire >>

\* C11: a diagnostic request (sendDiagnosticMessage, or sendRoutineControl
\* built on it) made while the client is in any state other than ACTIVE
\* hands back an empty result and writes nothing to the socket.
C11_RefusedWhenNotActive ==
    [][ (DiagnosticStep /\ state_ # "ACTIVE")
          => /\ doip_ret'.response = << >>
             /\ ~doip_ret'.ok
             /\ wire' = wire
             /\ state_' = state_ ]_vars

\* A routine-control request has been refused with the socket open, in
\* the middle of connect(), with earlier traffic on the wire.
C11_Witness ==
    /\ doip_ret = DoIPResult("sendRoutineControl", FALSE, << >>)
    /\ state_ = "CONNECTED"
    /\ socket_fd_ >= 0
    /\ wire # << >>
    /\ \A k \in 1..Len(wire) : wire[k].state \in { "CONNECTED", "ACTIVE" }

\* C12: a diagnostic request of an ACTIVE client that fails with an I/O
\* error (send failure, timeout, peer close, malformed or unexpected
\* message: the calls that hand back nothing) closes the socket and puts
\* the client in ERROR.
C12_IoErrorIsError ==
    [][ (DiagnosticStep /\ state_ = "ACTIVE" /\ doip_ret'.response = << >>)
          => (state_' = "ERROR" /\ socket_fd_' = -1) ]_vars

\* C13: when connect() has reached CONNECTED and routing activation then
\* fails, connect() returns false and leaves the client in ERROR.
C13_RoutingFailureIsError ==
    [][ (doip_pc = "routing" /\ doip_pc' = "idle" /\ state_ = "CONNECTED"
           /\ ~doip_ret'.ok)
          => state_' = "ERROR" ]_vars

\* C14: the client is ACTIVE only if a Routing Activation Response (0x0006,
\* at least 9 payload bytes) with code 0x10 was received on its currently
\* open socket since the last connect.
C14_ActiveOnlyAfterActivation ==
    state_ = "ACTIVE" => (socket_fd_ >= 0 /\ activated)

\* The client is ACTIVE on its second socket: a first activation request
\* went out and was not answered with success.
C14_Witness ==
    /\ state_ = "ACTIVE"
    /\ activated
    /\ Len(wire) >= 2
    /\ wire[1].payload_type = ROUTING_ACTIVATION_REQUEST
    /\ wire[2].payload_type = ROUTING_ACTIVATION_REQUEST

(***************************************************************************)
(* Cancellation                                                            *)
(***************************************************************************)
\* A step of cancelOTA that found an OTA in progress: it alone publishes
\* the cancellation report.
CancelStep ==
    /\ isOTAInProgress(current_state_)
    /\ cancel_ret' = "true"
    /\ Len(reports') = Len(reports) + 1
    /\ reports'[Len(reports')].error_message = CancelMessage

\* C15: cancel() on an OTA in a non-terminal state returns true and leaves
\* the OTA in state ERROR.
C15_CancelIsError ==
    [][ CancelStep => current_state_' = "ERROR" ]_vars

\* The report cancelOTA published at position i came while the self-update
\* was downloading.
CancelledInDownload(i) ==
    /\ i > 1
    /\ reports[i].state = "ERROR"
    /\ reports[i].error_message = CancelMessage
    /\ reports[i - 1].state = "DOWNLOADING"

\* C16: after a cancellation during the download of start_self_ota,
\* VERIFYING and INSTALLING are never entered.
C16_CancelStopsDownload ==
    \A i \in 1..Len(reports) : \A j \in (i + 1)..Len(reports) :
        (mode = "self" /\ CancelledInDownload(i))
          => reports[j].state \notin { "VERIFYING", "INSTALLING" }

(***************************************************************************)
(* Download retries                                                        *)
(***************************************************************************)
\* A step that issues one HTTP request for a chunk.
ChunkAttempt == n_http' = n_http + 1

VehicleReturned ==
    /\ mode = "vehicle"
    /\ pc = "idle"
    /\ reports # << >>
    /\ \E k \in 1..Len(reports) : reports[k].state = "VERIFYING"

\* C18: when parse (magic), verify (CRC32) or verify_target of the Vehicle
\* Package fails, start_vehicle_ota ends in ERROR without entering
\* INSTALLING: no zone file is extracted, no DoIP connection or UDS request
\* is made.
C18_FailedCheckIsError ==
    (/\ VehicleReturned
     /\ ~vpkg.magic_ok \/ ~vpkg.crc_ok \/ vpkg.target # "match")
      => /\ current_state_ = "ERROR"
         /\ reports[Len(reports)].state = "ERROR"
         /\ \A k \in 1..Len(reports) : reports[k].state # "INSTALLING"
         /\ \A z \in ZoneNumbers : ~zone_files[z].present
         /\ doip_clients_ = << >>
         /\ uds_log = << >>

\* sendZonePackageToZGW did not return true for zone zi, and
\* startVehicleOTA was left.
ZoneFailed ==
    /\ mode = "vehicle"
    /\ pc = "idle"
    /\ zi >= 1
    /\ ret \in { "false", "thrown" }

\* C19: when connecting, parsing or checking the zone file, or the block
\* transfer fails for zone zi, the vehicle OTA is aborted: the state is
\* ERROR and nothing was attempted for a zone after zi.
C19_ZoneFailureAborts ==
    ZoneFailed
      => /\ current_state_ = "ERROR"
         /\ Len(doip_clients_) = zi
         /\ \A k \in 1..Len(uds_log) : uds_log[k].zone <= zi

\* C20: a Vehicle Package with zone_count = 0 fails verification:
\* start_vehicle_ota on it never reaches COMPLETED.
C20_NoZonesNeverCompletes ==
    (mode = "vehicle" /\ reports # << >> /\ vpkg.zones = << >>)
      => current_state_ # "COMPLETED"

\* C21: a Vehicle Package whose zone offsets overlap or whose zone reaches
\* past the end of the file is rejected by parse/verify: start_vehicle_ota
\* ends in ERROR without extracting or transferring any zone of it.
C21_BadLayoutRejected ==
    (mode = "vehicle" /\ reports # << >> /\ vpkg.layout # "ok")
      => /\ current_state_ # "COMPLETED"
         /\ \A z \in ZoneNumbers : ~zone_files[z].present
         /\ uds_log = << >>

(***************************************************************************)
(* DoIP client cache                                                       *)
(***************************************************************************)
\* The endpoints of the zones startVehicleOTA has turned to so far.
EndpointsUsed ==
    { determineZoneTarget(zone_packages_[k].zone_number) : k \in 1..zi }

\* C22: the client cache holds at most one client per (host, port)
\* endpoint: the number of cached clients never exceeds the number of
\* distinct endpoints used.
C22_OneClientPerEndpoint ==
    (mode = "vehicle" /\ zi >= 1 /\ zi <= Len(zone_packages_))
      => Len(doip_clients_) <= Cardinality(EndpointsUsed)

(***************************************************************************)
(* Partition states, boot count and rollback                               *)
(***************************************************************************)
\* C23: in every reachable state of the partition manager at most one of
\* the partitions A and B is in state ACTIVE.
C23_AtMostOneActive ==
    ~(boot_status_.state_a = "ACTIVE" /\ boot_status_.state_b = "ACTIVE")

\* C24: switchBootTarget leaves the boot count 0 and every
\* incrementBootCount adds one to it, so that after a switch and n
\* increments isRollbackNeeded holds exactly when n >= 3; performRollback
\* then marks the boot target ROLLBACK, makes the other partition the boot
\* target and resets the boot count to 0.
C24_RollbackAfterThree ==
    [][ /\ SwitchTarget => boot_status_'.boot_count = 0
        /\ BootAttempt
             => boot_status_'.boot_count = boot_status_.boot_count + 1
        /\ isRollbackNeeded(boot_status_) <=> boot_status_.boot_count >= 3
        /\ Rollback
             => /\ getPartitionState(boot_status_', boot_status_.boot_target)
                     = "ROLLBACK"
                /\ boot_status_'.boot_target = Other(boot_status_.boot_target)
                /\ boot_status_'.boot_count = 0 ]_vars

\* With A active the boot target was switched to B and B was rolled back:
\* the boot target is A again, B is marked ROLLBACK and the count is 0.
C24_Witness ==
    /\ active_partition_ = "A"
    /\ boot_status_.boot_target = "A"
    /\ boot_status_.state_a = "ACTIVE"
    /\ boot_status_.state_b = "ROLLBACK"
    /\ boot_status_.boot_count = 0
    /\ bs_file.present /\ bs_file.rec = boot_status_

\* C25: neither switchBootTarget(t), for t = A or B, nor performRollback
\* changes what getActivePartition returns, so that after the one followed
\* by the other it returns the partition that was active before.
C25_RollbackKeepsActive ==
    [][ (SwitchTarget \/ RollbackCall)
          => getActivePartition' = getActivePartition ]_vars

\* With A active the boot target was switched to A and rolled back: the
\* boot target is B, and A, marked ROLLBACK, is still the active partition.
C25_Witness ==
    /\ getActivePartition = "A"
    /\ boot_status_.boot_target = "B"
    /\ boot_status_.state_a = "ROLLBACK"
    /\ boot_status_.boot_count = 0

\* C26: when the boot-status file is absent or was left shorter than a
\* whole record by an interrupted write, initialize() replaces it with the
\* default record: boot target A, A = ACTIVE, B = EMPTY, boot count 0.
C26_TornFileGivesDefault ==
    [][ (Restart /\ (~bs_file.present \/ bs_file.len < BootStatusSize))
          => /\ boot_status_' = DefaultBootStatus
             /\ active_partition_' = "A"
             /\ bs_file' = [present |-> TRUE, len |-> BootStatusSize,
                            rec |-> DefaultBootStatus] ]_vars

(***************************************************************************)
(* Order of states and of progress reports                                 *)
(***************************************************************************)
\* C27: when startOTA returns true the state is READY, the last state
\* that was reported, and COMPLETED has not been entered yet.
C27_ReadyAtReturn ==
    SelfReturned("true")
        => /\ reports # << >>
           /\ reports[Len(reports)].state = "READY"
           /\ current_state_ = "READY"

\* C28: within one OTA transaction, self or vehicle, the percentages of
\* successive progress reports never decrease.
C28_PercentageNeverDecreases ==
    \A i, j \in 1..Len(reports) :
        i < j => reports[i].percentage <= reports[j].percentage

\* The 5% boundaries of the download percentage.
Boundaries == { OTA_PROGRESS_REPORT_INTERVAL * k :
                  k \in 1..(100 \div OTA_PROGRESS_REPORT_INTERVAL) }

\* The values of downloaded at the ends of the chunks of a package.
ChunkEnds(total) ==
    { Min(k * OTA_DOWNLOAD_CHUNK_SIZE, total) :
        k \in 1..((total + OTA_DOWNLOAD_CHUNK_SIZE - 1)
                     \div OTA_DOWNLOAD_CHUNK_SIZE) }

\* The end of the first chunk that brings the percentage to m or above.
FirstAt(m, total) ==
    CHOOSE d \in ChunkEnds(total) :
        /\ (d * 100) \div total >= m
        /\ \A e \in ChunkEnds(total) : (e * 100) \div total >= m => d <= e

\* C29: for every boundary m in 5, 10, ..., 100, once the chunk after the
\* first chunk that brought the percentage to m or above has been
\* downloaded, or the download has ended, there is a report that was
\* emitted right after that first chunk.
C29_ReportAtEveryBoundary ==
    (mode = "self" /\ calls > 0 /\ package_info_.package_size > 0)
      => \A m \in Boundaries :
            LET first == FirstAt(m, package_info_.package_size)
            IN  (dl.downloaded > first
                   \/ (dl.downloaded = first /\ pc # "download"))
                  => \E i \in 1..Len(reports) :
                        reports[i].downloaded_bytes = first

(***************************************************************************)
(* Routine-control responses                                               *)
(***************************************************************************)
\* A UDS response that begins with 0x71 and has a fifth byte, equal to
\* 0x00.
PositiveRoutineResponse(response) ==
    /\ Len(response) >= 5
    /\ response[1] = 113
    /\ response[5] = 0

\* C30: requestVCICollection and requestReadinessCheck return true, and
\* requestVCIReport and requestReadinessReport wait for the report
\* message, only on a routine-control response that begins with 0x71 and
\* holds a status byte 0x00; a response too short to hold the byte that
\* is looked at counts as a failure.
C30_PositiveNeedsStatus ==
    /\ (doip_ret.op \in CollectionOps /\ doip_ret.ok)
          => PositiveRoutineResponse(doip_ret.response)
    /\ (doip_ret.op \in ReportOps /\ (doip_pc = "report" \/ doip_ret.ok))
          => PositiveRoutineResponse(doip_ret.response)

C32_ServiceIdOnce ==
    \A k \in 1..Len(uds_log) :
        LET e == uds_log[k]
        IN  /\ e.service_id = 52 => e.payload = BE4(xfer.file_size)
            /\ e.service_id = 54
                 => /\ Len(e.payload) = 1
                    /\ e.data_len <= UdsChunkSize
            /\ e.service_id = 55 => e.payload = << >>

(***************************************************************************)
(* Extraction of the zone packages                                         *)
(***************************************************************************)
\* C33: once extractAllZonePackages has returned success every entry of
\* the zone list has its extracted path set, and the file zone_<number>.bin
\* of the entry is there and holds the bytes of that entry: as many as the
\* entry's size, from inside the Vehicle Package.
C33_EveryZoneExtracted ==
    (mode = "vehicle" /\ pc \in { "zone", "x34", "x36", "xret" })
      => \A k \in 1..Len(zone_packages_) :
            LET zone == zone_packages_[k]
            IN  /\ zone.extracted
                /\ zone_files[zone.zone_number].present
                /\ zone_files[zone.zone_number].size = zone.size
                /\ vpkg.layout # "past_end"

(***************************************************************************)
(* connect() on an ACTIVE client                                           *)
(***************************************************************************)
\* C34: connect() called while the client is ACTIVE returns true and
\* changes nothing: the socket stays as it is, nothing is sent, the state
\* stays ACTIVE.
C34_ConnectIdempotent ==
    [][ (ConnectTcp /\ state_ = "ACTIVE")
          => /\ doip_ret'.op = "connect"
             /\ doip_ret'.ok
             /\ state_' = "ACTIVE"
             /\ UNCHANGED << socket_fd_, wire, activated, doip_pc >> ]_vars

\* connect() has returned true on a client whose latest message on the
\* wire is a diagnostic request: it was ACTIVE when connect() was called.
C34_Witness ==
    /\ doip_ret.op = "connect"
    /\ doip_ret.ok
    /\ doip_pc = "idle"
    /\ state_ = "ACTIVE"
    /\ socket_fd_ >= 0
    /\ wire # << >>
    /\ wire[Len(wire)].payload_type = DIAGNOSTIC_MESSAGE

(***************************************************************************)
(* Standby partition and boot target                                       *)
(***************************************************************************)
\* C35: getStandbyPartition never returns the partition that is the boot
\* target, so that installPackage, which marks and overwrites the
\* partition getStandbyPartition returns, never touches the boot target.
C35_StandbyIsNotBootTarget ==
    getStandbyPartition(active_partition_) # boot_status_.boot_target

(***************************************************************************)
(* Requests and their responses                                            *)
(***************************************************************************)
\* C36: a response sendDiagnosticMessage hands back is the reply of the
\* ZGW to the request of that call, the latest on the wire, and never the
\* reply to an earlier request that came after its timeout.
C36_ResponseOfSameRequest ==
    (doip_ret.op = "sendDiagnosticMessage" /\ doip_ret.response # << >>)
      => doip_ret.response = << 118, RequestsSent(wire) >>

(***************************************************************************)
(* The downloaded file and the progress record                             *)
(***************************************************************************)
\* C37: when downloadPackage has returned success, the caller being about
\* to verify or to parse the file, the file holds package_size bytes: the
\* bytes of the package, every chunk's range once.
C37_DownloadedFileIsPackage ==
    pc \in { "verify", "vparse" }
      => /\ Size(dl_file) = package_info_.package_size
         /\ \/ dl_file = ServerFile(package_info_.package_size)
            \/ \E k \in 1..Len(dl_file) : dl_file[k].tag = "junk"

\* C38: while a download runs, the percentage in the progress record is
\* floor(downloaded * 100 / total) for the downloaded and total bytes the
\* record holds, and lies in 0..100.
C38_PercentageIsExact ==
    (pc = "download" /\ progress_.total_bytes > 0)
      => /\ progress_.percentage \in 0..100
         /\ progress_.percentage
              = Quotient(Product100(progress_.downloaded_bytes),
                         progress_.total_bytes)

\* C39: whenever a start call has returned, the state in the progress
\* record is the state of the manager, and after an OTA that ended in
\* COMPLETED the last report published carries COMPLETED.
C39_ProgressStateIsState ==
    (calls > 0 /\ pc = "idle" /\ ret \in { "true", "false" })
      => /\ progress_.state = current_state_
         /\ current_state_ = "COMPLETED"
              => /\ reports # << >>
                 /\ reports[Len(reports)].state = "COMPLETED"

====
